---------------------------- MODULE Spec2Model ----------------------------
(***************************************************************************)
(* Model of the agent control plane of gemini-cli:                         *)
(*   - BrowserAgent.runTask (agents/browser/browserAgent.ts), the          *)
(*     observe / propose / dispatch loop, one action per awaited step;     *)
(*   - ExitPlanModeTool / ExitPlanModeInvocation (tools/exit-plan-mode.ts),*)
(*     the plan-approval confirmation state machine.                       *)
(*   - BrowserManager (agents/browser/browserManager.ts), the browser,     *)
(*     context and page held for getPage, with overlapping calls;          *)
(*   - the hook protocol of references/hooks.md: the runs of the hooks of  *)
(*     one gated event and the aggregate of their results;                 *)
(*   - ProjectRegistry (config/storage.ts), the registry file of short IDs.*)
(*                                                                         *)
(* Strings that the code builds by interpolation are sequences of tokens   *)
(* (the literal pieces and the interpolated values, in order).             *)
(* Locals of runTask are held while they are live: the pending prompt is   *)
(* moved into the user turn when the turn is built (lines 92-97), the user *)
(* turn is kept until the model call that sends it returns, and the parts  *)
(* of a model turn are kept as the function calls filtered out of them     *)
(* (line 157).  The history `contents` records, for every turn, its role   *)
(* and the iteration that pushed it; the parts of a turn are opaque to     *)
(* runTask once pushed.                                                    *)
(***************************************************************************)
EXTENDS Integers, Sequences, FiniteSets, TLC

(***************************************************************************)
(* Bounds of the model and constants of the program                        *)
(***************************************************************************)
\* browserAgent.ts:42
MAX_ITERATIONS == 20

\* largest number of parts in one model response
MaxParts == 2

None == "none"

(***************************************************************************)
(* Parts, calls and results                                                *)
(***************************************************************************)
\* the tool names of the dispatch switch, browserAgent.ts:182-230
KnownTools ==
  {"navigate", "click_at", "type_text_at", "scroll_document", "drag_and_drop",
   "pagedown", "pageup", "key_combination", "open_web_browser"}

TextPart(t) ==
  [kind |-> "text", text |-> t, name |-> None, decision |-> None,
   explanation |-> None]

InlinePart ==
  [kind |-> "inlineData", text |-> <<>>, name |-> None, decision |-> None,
   explanation |-> None]

CallPart(n, d, e) ==
  [kind |-> "functionCall", text |-> <<>>, name |-> n, decision |-> d,
   explanation |-> e]

\* the parts a model response is drawn from
PartChoices ==
  { TextPart(<<"a">>), TextPart(<<"b">>), InlinePart,
    CallPart("navigate", "regular", "e2"),
    CallPart("bogus_tool", None, None),
    CallPart("click_at", "require_confirmation", "e1") }

RECURSIVE SeqsUpTo(_, _)
SeqsUpTo(S, n) ==
  IF n = 0 THEN { <<>> }
  ELSE LET shorter == SeqsUpTo(S, n - 1)
       IN shorter \cup { Append(s, x) : s \in { t \in shorter : Len(t) = n - 1 }, x \in S }

\* result.candidates?.[0]?.content : absent, or a Content with its parts
NoContent == [content |-> FALSE, parts |-> <<>>]

ModelResponses ==
  { NoContent } \cup { [content |-> TRUE, parts |-> p] : p \in SeqsUpTo(PartChoices, MaxParts) }

\* what a browserTools function can do when invoked: return a result that
\* carries a url, return one that does not, or throw
ToolOutcomes ==
  { [t |-> "ok", url |-> "https://tool.example", msg |-> None],
    [t |-> "ok", url |-> None, msg |-> None],
    [t |-> "throw", url |-> None, msg |-> "boom"] }

\* what browserManager.getPage() can do: return the page, fail because the
\* playwright import failed, or fail otherwise
PageOutcomes == { "page", "playwrightMissing", "error" }

\* what one observation capture can run into: getPage, screenshot or
\* accessibility.snapshot rejects, the snapshot is null, or all succeed
CaptureOutcomes == { "pageFail", "shotFail", "snapFail", "snapNull", "ok" }

(***************************************************************************)
(* Pure helpers of runTask                                                 *)
(***************************************************************************)
\* parts.filter((p) => 'functionCall' in p)
FunctionCallsOf(parts) == SelectSeq(parts, LAMBDA p : p.kind = "functionCall")

\* args?.safety_decision?.decision === 'require_confirmation'
NeverRequiresConfirmation(call) == FALSE
RequiresConfirmation(call) == call.decision = "require_confirmation"

\* p.text of a part: undefined (joined as the empty string) unless a text part
TextOf(p) == IF p.kind = "text" THEN p.text ELSE <<>>

RECURSIVE JoinText(_)
\* parts.map((p) => p.text).join('')
JoinFirstText(parts) == IF parts = <<>> THEN <<>> ELSE TextOf(Head(parts))
JoinText(parts) ==
  IF parts = <<>> THEN <<>> ELSE TextOf(Head(parts)) \o JoinText(Tail(parts))

\* the template literal of line 178
SafetyMessage(call) ==
  << "Action Required: The model requested a safety confirmation for the action \"",
     call.name,
     "\". Please confirm if you want to proceed with: ",
     call.explanation >>

\* the template literal of line 303
ExhaustedMessage ==
  << "The browser agent reached the maximum number of steps (",
     ToString(MAX_ITERATIONS),
     ") without completing the task. Please try refining your prompt or breaking the task into smaller steps." >>

\* the message thrown by BrowserManager.getPage when the import fails
PlaywrightMessage ==
  "Playwright is not installed. Please install it to use the browser agent: npm install playwright"

\* funcResult = {} of line 170: no error, no url
EmptyResult == [error |-> <<>>, url |-> None]

\* the switch default of line 232
UnknownToolSilent(name) == [error |-> <<>>, url |-> None]
UnknownToolResult(name) == [error |-> <<"Unknown tool: ", name>>, url |-> None]

\* the catch of lines 234-237
CaughtAsOk(msg) == [error |-> <<>>, url |-> None]
CaughtToolError(msg) == [error |-> <<msg>>, url |-> None]

\* screenshot and accessibility snapshot obtained by one capture (lines 73-80)
CaptureResult(o) ==
  CASE o \in {"pageFail", "shotFail"} -> [shot |-> "", dom |-> ""]
    [] o \in {"snapFail", "snapNull"} -> [shot |-> "img", dom |-> ""]
    [] OTHER -> [shot |-> "img", dom |-> "tree"]

\* top-level observation parts of a user turn (lines 106-119)
ObservationParts(shot, dom) ==
  (IF dom # "" THEN << [kind |-> "text", text |-> <<"Current Accessibility Tree:\n", dom>>] >> ELSE <<>>)
  \o (IF shot # "" THEN << [kind |-> "inlineData", data |-> shot] >> ELSE <<>>)

\* parts attached to a function response (lines 284-294)
ResponseObservation(shot, dom) ==
  (IF shot # "" THEN << [kind |-> "inlineData", data |-> shot] >> ELSE <<>>)
  \o (IF dom # "" THEN << [kind |-> "text", text |-> <<"current_accessibility_tree:\n", dom>>] >> ELSE <<>>)

\* the responsePart without the name of its call
ResponsePartUnnamed(call, res, shot, dom) ==
  [kind |-> "functionResponse", name |-> None, response |-> res,
   parts |-> ResponseObservation(shot, dom)]

\* the responsePart of lines 276-282 with its observation
ResponsePart(call, res, shot, dom) ==
  [kind |-> "functionResponse", name |-> call.name, response |-> res,
   parts |-> ResponseObservation(shot, dom)]

\* Array.isArray(currentPrompt) && length > 0 && 'functionResponse' in [0]
NeverFunctionResponse(prompt) == FALSE
IsFunctionResponse(prompt) ==
  /\ prompt.type = "parts"
  /\ Len(prompt.parts) > 0
  /\ prompt.parts[1].kind = "functionResponse"

NoPrompt == [type |-> None, text |-> <<>>, parts |-> <<>>]

NoTurn == [role |-> None, parts |-> <<>>]

\* the user turn of lines 90-120
NewContent(prompt, shot, dom) ==
  [role |-> "user",
   parts |-> (IF prompt.type = "string"
                THEN << [kind |-> "text", text |-> prompt.text] >>
                ELSE prompt.parts)
             \o (IF IsFunctionResponse(prompt) THEN <<>>
                 ELSE ObservationParts(shot, dom))]

(***************************************************************************)
(* State of one runTask session                                            *)
(***************************************************************************)
VARIABLES
  pc,                \* position of runTask
  i,                 \* the loop counter of line 63
  currentPrompt,     \* pending prompt (line 39 / 299), NoPrompt once moved into the turn
  contents,          \* history: one entry per pushed turn
  newContent,        \* the user turn being sent (line 90), NoTurn when not live
  response,          \* the model turn that ended the task (line 136)
  functionCalls,     \* line 157
  idx,               \* position of the for-of loop of line 166 (1-based)
  funcResult,        \* line 170
  functionResponses, \* line 165
  border,            \* arguments of the last updateBorderOverlay call
  lastOverlayCall,   \* the last call made on the overlay: none / update / remove
  result,            \* the string runTask returned, <<>> while running
  exit,              \* which statement ended runTask
  modelCalls,        \* number of generateContent calls made
  execLog,           \* this turn's calls whose tool function was invoked, and whether it threw
  warned,            \* whether the warning of line 55-58 was logged
  urlStep            \* the url the tool result came with and the getPage of line 242

agentVars ==
  << pc, i, currentPrompt, contents, newContent, response, functionCalls, idx, funcResult, functionResponses, border,
     lastOverlayCall, result, exit, modelCalls, execLog, warned, urlStep >>

\* the url step of a call not yet dispatched
NoUrlStep == [own |-> None, page |-> None]

\* the systemInstruction + prompt of line 39
InitialPrompt == [type |-> "string", text |-> <<"SYSTEM", "task">>, parts |-> <<>>]

AgentInit ==
  /\ pc = "start"
  /\ i = 0
  /\ currentPrompt = InitialPrompt
  /\ contents = <<>>
  /\ newContent = NoTurn
  /\ response = NoContent
  /\ functionCalls = <<>>
  /\ idx = 0
  /\ funcResult = EmptyResult
  /\ functionResponses = <<>>
  /\ border = [active |-> FALSE, capturing |-> FALSE]
  /\ lastOverlayCall = "none"
  /\ result = <<>>
  /\ exit = None
  /\ modelCalls = 0
  /\ execLog = <<>>
  /\ warned = FALSE
  /\ urlStep = NoUrlStep

(***************************************************************************)
(* Overlay calls of browserTools                                           *)
(***************************************************************************)
\* browserTools.updateBorderOverlay({active, capturing})
UpdateBorderOverlay(a, c) ==
  /\ border' = [active |-> a, capturing |-> c]
  /\ lastOverlayCall' = "update"

\* browserTools.removeOverlay()
RemoveOverlay ==
  /\ lastOverlayCall' = "remove"
  /\ UNCHANGED border

(***************************************************************************)
(* Steps of runTask                                                        *)
(***************************************************************************)
\* e.message of what the initial getPage() threw
PageErrorMessage(o) ==
  IF o = "playwrightMissing" THEN PlaywrightMessage ELSE "Failed to create page"

\* e instanceof Error && e.message.includes('Playwright is not installed')
IsAnyPageError(o) == o # "page"
IsPlaywrightMissing(o) == o = "playwrightMissing"

\* the loop condition of line 63
LoopOneMore(n) == n <= MAX_ITERATIONS
LoopCondition(n) == n < MAX_ITERATIONS

\* where control goes when the loop condition is evaluated with counter n
LoopHead(n) == IF LoopCondition(n) THEN "capture" ELSE "exhausted"

\* lines 240-247 with the catch of line 244 leaving the url unset
EnsureUrlNoFallback(res, pg) ==
  IF res.url = None /\ pg = "page"
    THEN [res EXCEPT !.url = "https://page.example"]
    ELSE res

\* lines 240-247: the url of the response, pg the outcome of getPage
EnsureUrl(res, pg) ==
  IF res.url = None
    THEN [res EXCEPT !.url = IF pg = "page" THEN "https://page.example"
                              ELSE "about:blank"]
    ELSE res

\* the initial getPage with every other failure left uncaught
StartUncaught ==
  /\ pc = "start"
  /\ \E o \in PageOutcomes :
       IF o # "page"
         THEN /\ result' = IF IsPlaywrightMissing(o) THEN <<"Error: ", PageErrorMessage(o)>>
                           ELSE <<>>
              /\ exit' = IF IsPlaywrightMissing(o) THEN "return52" ELSE "throw46"
              /\ pc' = "done"
              /\ warned' = (o = "error")
         ELSE /\ warned' = FALSE
              /\ pc' = "activate"
              /\ UNCHANGED << result, exit >>
  /\ UNCHANGED << i, currentPrompt, contents, newContent, response,
                  functionCalls, idx, funcResult, functionResponses, border,
                  lastOverlayCall, modelCalls, execLog >>
  /\ UNCHANGED urlStep

\* lines 44-59: the initial getPage
Start ==
  /\ pc = "start"
  /\ \E o \in PageOutcomes :
       IF IsPlaywrightMissing(o)
         THEN /\ result' = <<"Error: ", PageErrorMessage(o)>>
              /\ exit' = "return52"
              /\ pc' = "done"
              /\ UNCHANGED warned
         ELSE /\ warned' = (o = "error")
              /\ pc' = "activate"
              /\ UNCHANGED << result, exit >>
  /\ UNCHANGED << i, currentPrompt, contents, newContent, response,
                  functionCalls, idx, funcResult, functionResponses, border,
                  lastOverlayCall, modelCalls, execLog >>
  /\ UNCHANGED urlStep

\* line 61, and the first evaluation of the loop condition
Activate ==
  /\ pc = "activate"
  /\ UpdateBorderOverlay(TRUE, FALSE)
  /\ pc' = LoopHead(i)
  /\ UNCHANGED << i, currentPrompt, contents, newContent, response,
                  functionCalls, idx, funcResult, functionResponses, result,
                  exit, modelCalls, execLog, warned >>
  /\ UNCHANGED urlStep

\* lines 65-72: the overlay is removed and the border is put into capturing
\* state
CaptureStart ==
  /\ pc = "capture"
  /\ UpdateBorderOverlay(TRUE, TRUE)
  /\ pc' = "capturing"
  /\ UNCHANGED << i, currentPrompt, contents, newContent, response,
                  functionCalls, idx, funcResult, functionResponses, result,
                  exit, modelCalls, execLog, warned >>
  /\ UNCHANGED urlStep

\* lines 73-122: page, screenshot, snapshot; catch; finally; the user turn
\* is built from the pending prompt and pushed
CaptureObserveUncaught ==
  /\ pc = "capturing"
  /\ \E o \in CaptureOutcomes :
       IF o \in {"pageFail", "shotFail", "snapFail"}
         THEN /\ exit' = "throw73"
              /\ pc' = "done"
              /\ UNCHANGED << currentPrompt, contents, newContent >>
         ELSE /\ newContent' = NewContent(currentPrompt, CaptureResult(o).shot,
                                         CaptureResult(o).dom)
              /\ contents' = Append(contents, [role |-> "user", iter |-> i])
              /\ currentPrompt' = NoPrompt
              /\ pc' = "callModel"
              /\ UNCHANGED exit
  /\ UpdateBorderOverlay(TRUE, FALSE)
  /\ UNCHANGED << i, response, functionCalls, idx, funcResult,
                  functionResponses, result, modelCalls, execLog, warned >>
  /\ UNCHANGED urlStep

CaptureObserveNoFinally ==
  /\ pc = "capturing"
  /\ \E o \in CaptureOutcomes :
       /\ newContent' = NewContent(currentPrompt, CaptureResult(o).shot,
                                   CaptureResult(o).dom)
       /\ IF o \in {"pageFail", "shotFail", "snapFail"}
            THEN UNCHANGED << border, lastOverlayCall >>
            ELSE UpdateBorderOverlay(TRUE, FALSE)
  /\ contents' = Append(contents, [role |-> "user", iter |-> i])
  /\ currentPrompt' = NoPrompt
  /\ pc' = "callModel"
  /\ UNCHANGED << i, response, functionCalls, idx, funcResult,
                  functionResponses, result, exit, modelCalls, execLog, warned >>
  /\ UNCHANGED urlStep

CaptureObserve ==
  /\ pc = "capturing"
  /\ \E o \in CaptureOutcomes :
       newContent' = NewContent(currentPrompt, CaptureResult(o).shot,
                                CaptureResult(o).dom)
  /\ UpdateBorderOverlay(TRUE, FALSE)
  /\ contents' = Append(contents, [role |-> "user", iter |-> i])
  /\ currentPrompt' = NoPrompt
  /\ pc' = "callModel"
  /\ UNCHANGED << i, response, functionCalls, idx, funcResult,
                  functionResponses, result, exit, modelCalls, execLog, warned >>
  /\ UNCHANGED urlStep

\* lines 125-134: the request carrying the history is handed to the
\* generator, which keeps the turn from here on
ModelRequest ==
  /\ pc = "callModel"
  /\ modelCalls' = modelCalls + 1
  /\ newContent' = NoTurn
  /\ pc' = "awaitModel"
  /\ UNCHANGED << i, currentPrompt, contents, response, functionCalls, idx,
                  funcResult, functionResponses, border, lastOverlayCall,
                  result, exit, execLog, warned >>
  /\ UNCHANGED urlStep

\* line 125: generateContent rejects; runTask has no handler around it
ModelThrows ==
  /\ pc = "awaitModel"
  /\ exit' = "throw125"
  /\ pc' = "done"
  /\ UNCHANGED << i, currentPrompt, contents, newContent, response,
                  functionCalls, idx, funcResult, functionResponses, border,
                  lastOverlayCall, result, modelCalls, execLog, warned >>
  /\ UNCHANGED urlStep

\* lines 125-137: no candidate content, break
ModelNoContent ==
  /\ pc = "awaitModel"
  /\ response' = NoContent
  /\ functionCalls' = <<>>
  /\ execLog' = <<>>
  /\ pc' = "exhausted"
  /\ UNCHANGED << i, currentPrompt, newContent, modelCalls, contents, idx, funcResult,
                  functionResponses, border, lastOverlayCall, result, exit,
                  warned >>
  /\ UNCHANGED urlStep

\* lines 125-162: a response without function calls ends the task
ModelFinishes ==
  /\ pc = "awaitModel"
  /\ \E r \in ModelResponses \ { NoContent } :
       /\ Len(FunctionCallsOf(r.parts)) = 0
       /\ response' = r
       /\ functionCalls' = FunctionCallsOf(r.parts)
       /\ result' = JoinText(r.parts)
  /\ contents' = Append(contents, [role |-> "model", iter |-> i])
  /\ execLog' = <<>>
  /\ RemoveOverlay
  /\ exit' = "return161"
  /\ pc' = "done"
  /\ UNCHANGED << i, currentPrompt, newContent, modelCalls, idx, funcResult, functionResponses, warned >>
  /\ UNCHANGED urlStep

\* the model turn written over the user turn instead of pushed after it
ModelCallsOverwriting ==
  /\ pc = "awaitModel"
  /\ \E r \in ModelResponses \ { NoContent } :
       /\ Len(FunctionCallsOf(r.parts)) > 0
       /\ functionCalls' = FunctionCallsOf(r.parts)
  /\ contents' = [contents EXCEPT ![Len(contents)] = [role |-> "model", iter |-> i]]
  /\ execLog' = <<>>
  /\ functionResponses' = <<>>
  /\ idx' = 1
  /\ pc' = "checkSafety"
  /\ UNCHANGED << i, currentPrompt, newContent, modelCalls, response, funcResult, border,
                  lastOverlayCall, result, exit, warned >>
  /\ UNCHANGED urlStep

\* lines 125-165: a response with function calls starts the dispatch
ModelCalls ==
  /\ pc = "awaitModel"
  /\ \E r \in ModelResponses \ { NoContent } :
       /\ Len(FunctionCallsOf(r.parts)) > 0
       /\ functionCalls' = FunctionCallsOf(r.parts)
  /\ contents' = Append(contents, [role |-> "model", iter |-> i])
  /\ execLog' = <<>>
  /\ functionResponses' = <<>>
  /\ idx' = 1
  /\ pc' = "checkSafety"
  /\ UNCHANGED << i, currentPrompt, newContent, modelCalls, response, funcResult, border,
                  lastOverlayCall, result, exit, warned >>
  /\ UNCHANGED urlStep

\* the safety return handing the responses built so far on as the prompt
CheckSafetyFlushing ==
  /\ pc = "checkSafety"
  /\ IF RequiresConfirmation(functionCalls[idx])
       THEN /\ result' = SafetyMessage(functionCalls[idx])
            /\ exit' = "return178"
            /\ pc' = "done"
            /\ currentPrompt' = [type |-> "parts", text |-> <<>>,
                                 parts |-> functionResponses]
       ELSE /\ pc' = "tool"
            /\ UNCHANGED << result, exit, currentPrompt >>
  /\ UNCHANGED << i, contents, newContent, response,
                  functionCalls, idx, funcResult, functionResponses, border,
                  lastOverlayCall, modelCalls, execLog, warned >>
  /\ UNCHANGED urlStep

\* lines 167-179: the safety decision of the call at hand
CheckSafety ==
  /\ pc = "checkSafety"
  /\ IF RequiresConfirmation(functionCalls[idx])
       THEN /\ result' = SafetyMessage(functionCalls[idx])
            /\ exit' = "return178"
            /\ pc' = "done"
       ELSE /\ pc' = "tool"
            /\ UNCHANGED << result, exit >>
  /\ UNCHANGED << i, currentPrompt, contents, newContent, response,
                  functionCalls, idx, funcResult, functionResponses, border,
                  lastOverlayCall, modelCalls, execLog, warned >>
  /\ UNCHANGED urlStep

\* lines 182-230, 240-257: a case of the switch is taken and its tool
\* returns; the url is ensured and the capture after execution begins
ToolReturns ==
  /\ pc = "tool"
  /\ functionCalls[idx].name \in KnownTools
  /\ \E o \in ToolOutcomes, pg \in PageOutcomes :
       /\ o.t = "ok"
       /\ funcResult' = EnsureUrl([error |-> <<>>, url |-> o.url], pg)
       /\ urlStep' = [own |-> o.url, page |-> IF o.url = None THEN pg ELSE None]
  /\ execLog' = Append(execLog, [call |-> idx, threw |-> FALSE])
  /\ UpdateBorderOverlay(TRUE, TRUE)
  /\ pc' = "postCapturing"
  /\ UNCHANGED << i, currentPrompt, contents, newContent, response,
                  functionCalls, idx, functionResponses, result, exit,
                  modelCalls, warned >>

\* lines 182-257: a case of the switch is taken and its tool throws
ToolThrows ==
  /\ pc = "tool"
  /\ functionCalls[idx].name \in KnownTools
  /\ \E o \in ToolOutcomes, pg \in PageOutcomes :
       /\ o.t = "throw"
       /\ funcResult' = EnsureUrl(CaughtToolError(o.msg), pg)
       /\ urlStep' = [own |-> None, page |-> pg]
  /\ execLog' = Append(execLog, [call |-> idx, threw |-> TRUE])
  /\ UpdateBorderOverlay(TRUE, TRUE)
  /\ pc' = "postCapturing"
  /\ UNCHANGED << i, currentPrompt, contents, newContent, response,
                  functionCalls, idx, functionResponses, result, exit,
                  modelCalls, warned >>

\* lines 231-232, 240-257: the default case
ToolUnknown ==
  /\ pc = "tool"
  /\ functionCalls[idx].name \notin KnownTools
  /\ \E pg \in PageOutcomes :
       /\ funcResult' = EnsureUrl(UnknownToolResult(functionCalls[idx].name), pg)
       /\ urlStep' = [own |-> None, page |-> pg]
  /\ UpdateBorderOverlay(TRUE, TRUE)
  /\ pc' = "postCapturing"
  /\ UNCHANGED << i, currentPrompt, contents, newContent, response,
                  functionCalls, idx, functionResponses, result, exit,
                  modelCalls, execLog, warned >>

\* the capture after the first call of a turn already starts the next turn
PostCaptureNextTurn ==
  /\ pc = "postCapturing"
  /\ UpdateBorderOverlay(TRUE, FALSE)
  /\ \E o \in CaptureOutcomes :
       currentPrompt' =
         [type |-> "parts", text |-> <<>>,
          parts |-> Append(functionResponses,
                           ResponsePart(functionCalls[idx], funcResult,
                                        CaptureResult(o).shot, CaptureResult(o).dom))]
  /\ functionResponses' = <<>>
  /\ i' = i + 1
  /\ pc' = LoopHead(i + 1)
  /\ funcResult' = EmptyResult
  /\ UNCHANGED << idx, contents, newContent, response, functionCalls, result, exit,
                  modelCalls, execLog, warned >>
  /\ urlStep' = NoUrlStep

\* lines 258-299: capture, catch, finally; the response part is pushed; the
\* for-of loop advances, and after its last call the responses become the
\* pending prompt, i is incremented and the loop condition is evaluated
PostCaptureObserve ==
  /\ pc = "postCapturing"
  /\ UpdateBorderOverlay(TRUE, FALSE)
  /\ \E o \in CaptureOutcomes :
       LET pushed == Append(functionResponses,
                            ResponsePart(functionCalls[idx], funcResult,
                                         CaptureResult(o).shot,
                                         CaptureResult(o).dom))
       IN IF idx < Len(functionCalls)
            THEN /\ functionResponses' = pushed
                 /\ idx' = idx + 1
                 /\ pc' = "checkSafety"
                 /\ UNCHANGED << i, currentPrompt >>
            ELSE /\ currentPrompt' = [type |-> "parts", text |-> <<>>, parts |-> pushed]
                 /\ functionResponses' = <<>>
                 /\ i' = i + 1
                 /\ pc' = LoopHead(i + 1)
                 /\ UNCHANGED idx
  /\ funcResult' = EmptyResult
  /\ UNCHANGED << contents, newContent, response, functionCalls, result, exit,
                  modelCalls, execLog, warned >>
  /\ urlStep' = NoUrlStep

\* lines 301-303
Exhausted ==
  /\ pc = "exhausted"
  /\ UpdateBorderOverlay(FALSE, FALSE)
  /\ result' = ExhaustedMessage
  /\ exit' = "return303"
  /\ pc' = "done"
  /\ UNCHANGED << i, currentPrompt, contents, newContent, response,
                  functionCalls, idx, funcResult, functionResponses,
                  modelCalls, execLog, warned >>
  /\ UNCHANGED urlStep

(***************************************************************************)
(* Plan approval: paths                                                    *)
(***************************************************************************)
\* largest number of confirmation requests one invocation hands out
MaxRequests == 2

\* largest number of execute calls on one invocation
MaxExecutes == 2

\* A path is absolute or relative and has a sequence of segments; the empty
\* string is the relative path without segments, a whitespace-only string
\* the relative path whose only segment is " ".
RelPath(segs) == [abs |-> FALSE, segs |-> segs]

AbsPath(segs) == [abs |-> TRUE, segs |-> segs]

RECURSIVE NormalizeSegs(_, _)
\* the normalisation path.resolve applies: "." and "" are dropped, ".."
\* removes the segment before it and stays at the root
NormalizeSegs(done, todo) ==
  IF todo = <<>> THEN done
  ELSE LET h == Head(todo)
       IN IF h \in {".", ""} THEN NormalizeSegs(done, Tail(todo))
          ELSE IF h = ".."
                 THEN NormalizeSegs(IF done = <<>> THEN <<>>
                                    ELSE SubSeq(done, 1, Len(done) - 1),
                                    Tail(todo))
                 ELSE NormalizeSegs(Append(done, h), Tail(todo))

\* path.resolve(base, p) for an absolute base: the segments of the result
Resolve(base, p) ==
  IF p.abs THEN NormalizeSegs(<<>>, p.segs)
  ELSE NormalizeSegs(<<>>, base \o p.segs)

\* isWithinRoot(pathToCheck, rootDirectory) of utils/fileUtils: the path is
\* the root or lies below it
IsWithinRoot(path, root) ==
  LET np == NormalizeSegs(<<>>, path)
      nr == NormalizeSegs(<<>>, root)
  IN /\ Len(np) >= Len(nr)
     /\ SubSeq(np, 1, Len(nr)) = nr

\* config.getTargetDir()
TargetDir == <<"mock", "dir">>

\* the values config.storage.getProjectTempPlansDir() returns over time
PlansDirs == { <<"mock", "dir", "plans">>, <<"completely", "different", "path">> }

\* plan_path values handed to the tool
PlanPaths ==
  { RelPath(<<"plans", "test-plan.md">>),
    RelPath(<<"plans", "sub", "..", "p.md">>),
    RelPath(<<"plans", "..", "src", "x.ts">>),
    RelPath(<<"..", "..", "..", "etc", "passwd">>),
    RelPath(<<"plans-old", "p.md">>),
    AbsPath(<<"completely", "different", "path", "p.md">>),
    AbsPath(<<"etc", "passwd">>),
    RelPath(<<>>),
    RelPath(<<" ">>) }

\* !params.plan_path || params.plan_path.trim() === ''
IsBlank(p) == ~p.abs /\ \A k \in 1..Len(p.segs) : p.segs[k] = " "

(***************************************************************************)
(* Plan approval: outcomes, payloads, results                              *)
(***************************************************************************)
\* ToolConfirmationOutcome values a resolver supplies
Outcomes == { "ProceedOnce", "ProceedAlways", "Cancel" }

NoPayload == [type |-> None, approved |-> FALSE, approvalMode |-> None, feedback |-> <<>>]

\* the payloads a resolver supplies: none, a plan_approval payload, or a
\* payload of another confirmation type
Payloads ==
  { NoPayload }
  \cup { [type |-> "plan_approval", approved |-> TRUE, approvalMode |-> m, feedback |-> <<>>] :
           m \in { None, "default", "autoEdit" } }
  \cup { [type |-> "plan_approval", approved |-> FALSE, approvalMode |-> None, feedback |-> f] :
           f \in { <<>>, <<"Please add more details.">> } }
  \cup { [type |-> "edit", approved |-> TRUE, approvalMode |-> "autoEdit", feedback |-> <<>>] }

\* getApprovalModeDescription, lines 27-35
ApprovalModeDescription(mode) ==
  IF mode = "autoEdit" THEN "Auto-Edit mode (edits will be applied automatically)"
  ELSE "Default mode (edits will require confirmation)"

OutsideText == "Error: Plan path is outside the designated plans directory."

\* lines 165-170
OutsideResult == [llmContent |-> <<OutsideText>>, returnDisplay |-> <<OutsideText>>]

\* lines 174-178
CancelledResult ==
  [llmContent |-> <<"User cancelled the plan approval dialog. The plan was not approved and you are still in Plan Mode.">>,
   returnDisplay |-> <<"Cancelled">>]

\* lines 189-195
ApprovedResult(mode, resolved) ==
  [llmContent |-> << "Plan approved. Switching to ", ApprovalModeDescription(mode),
                     ".\n\nThe approved implementation plan is stored at: ", resolved,
                     "\nRead and follow the plan strictly during implementation." >>,
   returnDisplay |-> << "Plan approved: ", resolved >>]

\* payload?.feedback || 'None', line 197
FeedbackRaw(payload) == payload.feedback
FeedbackOf(payload) == IF payload.feedback = <<>> THEN <<"None">> ELSE payload.feedback

\* lines 198-204
RejectedResult(feedback, resolved) ==
  [llmContent |-> << "Plan rejected. Feedback: ", feedback,
                     "\n\nThe plan is stored at: ", resolved,
                     "\nRevise the plan based on the feedback." >>,
   returnDisplay |-> << "Feedback: ", feedback >>]

NoResult == [llmContent |-> <<>>, returnDisplay |-> <<>>]

(***************************************************************************)
(* Plan approval: state                                                    *)
(***************************************************************************)
VARIABLES
  plansDir,             \* what getProjectTempPlansDir() returns now
  approvalMode,         \* the process approval mode held by Config
  built,                \* whether build() has created the invocation
  buildError,           \* the validation error of the last rejected build
  params,               \* this.params.plan_path of the invocation
  confirmationOutcome,  \* line 109
  approvalPayload,      \* line 110
  requests,             \* the confirmation requests handed out, in order
  confirmResult,        \* what the last shouldConfirmExecute returned
  executes,             \* number of execute calls made
  modeSets,             \* number of config.setApprovalMode calls made
  planResult,           \* the ToolResult of the last execute
  aborted               \* whether the signal given to shouldConfirmExecute fired

planVars ==
  << plansDir, approvalMode, built, buildError, params, confirmationOutcome,
     approvalPayload, requests, confirmResult, executes, modeSets, planResult,
     aborted >>

PlanInit ==
  /\ plansDir = <<"mock", "dir", "plans">>
  /\ approvalMode = "plan"
  /\ built = FALSE
  /\ buildError = <<>>
  /\ params = RelPath(<<>>)
  /\ confirmationOutcome = None
  /\ approvalPayload = NoPayload
  /\ requests = <<>>
  /\ confirmResult = None
  /\ executes = 0
  /\ modeSets = 0
  /\ planResult = NoResult
  /\ aborted = FALSE

(***************************************************************************)
(* Plan approval: operations                                               *)
(***************************************************************************)
\* validateToolParamValues, lines 69-87: the error text, <<>> for null
ValidateRequiredOnly(p) == IF IsBlank(p) THEN <<"plan_path is required.">> ELSE <<>>
ValidateToolParamValues(p) ==
  IF IsBlank(p) THEN <<"plan_path is required.">>
  ELSE IF ~IsWithinRoot(Resolve(TargetDir, p), plansDir)
         THEN << "Access denied: plan path must be within the designated plans directory (",
                 plansDir, ")." >>
         ELSE <<>>

\* getValidatedPlanPath, lines 153-160: the resolved path, or <<>> for null
\* (a resolved path inside the plans directory is never the root itself
\* unless the plans directory is)
AlwaysValidPlanPath(p, dir) == [valid |-> TRUE, path |-> Resolve(TargetDir, p)]
ValidatedPlanPath(p, dir) ==
  IF IsWithinRoot(Resolve(TargetDir, p), dir)
    THEN [valid |-> TRUE, path |-> Resolve(TargetDir, p)]
    ELSE [valid |-> FALSE, path |-> <<>>]

\* build(): the parameters are validated, the invocation is created only for
\* valid ones (createInvocation, lines 89-102)
Build ==
  /\ ~built
  /\ \E p \in PlanPaths :
       IF ValidateToolParamValues(p) = <<>>
         THEN /\ built' = TRUE
              /\ params' = p
              /\ buildError' = <<>>
         ELSE /\ buildError' = ValidateToolParamValues(p)
              /\ UNCHANGED << built, params >>
  /\ UNCHANGED << aborted, plansDir, approvalMode, confirmationOutcome, approvalPayload,
                  requests, confirmResult, executes, modeSets, planResult >>

\* the plans directory reported by the configuration changes
ChangePlansDir ==
  /\ \E d \in PlansDirs \ { plansDir } : plansDir' = d
  /\ UNCHANGED << aborted, approvalMode, built, buildError, params, confirmationOutcome,
                  approvalPayload, requests, confirmResult, executes, modeSets,
                  planResult >>

\* shouldConfirmExecute handing out the joined, not the resolved, path
ShouldConfirmJoinedPath ==
  /\ built
  /\ Len(requests) < MaxRequests
  /\ LET v == ValidatedPlanPath(params, plansDir)
     IN IF ~v.valid
          THEN /\ confirmResult' = "false"
               /\ UNCHANGED requests
          ELSE /\ confirmResult' = "plan_approval"
               /\ requests' = Append(requests, [planPath |-> TargetDir \o params.segs,
                                                resolved |-> FALSE, with |-> None])
  /\ UNCHANGED << aborted, plansDir, approvalMode, built, buildError, params,
                  confirmationOutcome, approvalPayload, executes, modeSets,
                  planResult >>

\* shouldConfirmExecute, lines 122-144
ShouldConfirmExecute ==
  /\ built
  /\ Len(requests) < MaxRequests
  /\ LET v == ValidatedPlanPath(params, plansDir)
     IN IF ~v.valid
          THEN /\ confirmResult' = "false"
               /\ UNCHANGED requests
          ELSE /\ confirmResult' = "plan_approval"
               /\ requests' = Append(requests, [planPath |-> v.path, resolved |-> FALSE,
                                                with |-> None])
  /\ UNCHANGED << aborted, plansDir, approvalMode, built, buildError, params,
                  confirmationOutcome, approvalPayload, executes, modeSets,
                  planResult >>

\* the payload recorded by onConfirm, lines 139-141
RecordedPayload(old, payload) ==
  IF payload.type = "plan_approval" THEN payload ELSE old

\* the onConfirm callback of request r, lines 134-142
OnConfirm ==
  /\ \E r \in 1..Len(requests), o \in Outcomes, payload \in Payloads :
       /\ confirmationOutcome' = o
       /\ approvalPayload' = RecordedPayload(approvalPayload, payload)
       /\ requests' = [requests EXCEPT ![r].resolved = TRUE]
  /\ UNCHANGED << aborted, plansDir, approvalMode, built, buildError, params,
                  confirmResult, executes, modeSets, planResult >>

\* the onConfirm callback of request r, lines 134-142, the request keeping
\* the type of the payload its resolver supplied last
OnConfirmTraced ==
  /\ \E r \in 1..Len(requests), o \in Outcomes, payload \in Payloads :
       /\ confirmationOutcome' = o
       /\ approvalPayload' = RecordedPayload(approvalPayload, payload)
       /\ requests' = [requests EXCEPT ![r].resolved = TRUE,
                                       ![r].with = payload.type]
  /\ UNCHANGED << aborted, plansDir, approvalMode, built, buildError, params,
                  confirmResult, executes, modeSets, planResult >>

\* the AbortSignal handed to shouldConfirmExecute fires; the parameter is
\* not read (line 123), so nothing of the invocation changes
Abort ==
  /\ confirmResult # None
  /\ ~aborted
  /\ aborted' = TRUE
  /\ UNCHANGED << plansDir, approvalMode, built, buildError, params,
                  confirmationOutcome, approvalPayload, requests, confirmResult,
                  executes, modeSets, planResult >>

\* this.confirmationOutcome === ToolConfirmationOutcome.Cancel, line 173
NeverCancelled(outcome) == FALSE
IsCancelled(outcome) == outcome = "Cancel"

\* payload?.approved, line 182
IsApproved(payload) == payload.approved

\* payload.approvalMode ?? ApprovalMode.DEFAULT, line 184
NewModeAlwaysDefault(payload) == "default"
NewMode(payload) ==
  IF payload.approvalMode = None THEN "default" ELSE payload.approvalMode

\* execute with the payload consulted before the outcome
ExecuteApprovedFirst ==
  /\ built
  /\ executes < MaxExecutes
  /\ executes' = executes + 1
  /\ LET v == ValidatedPlanPath(params, plansDir)
     IN IF ~v.valid
          THEN /\ planResult' = OutsideResult
               /\ UNCHANGED << approvalMode, modeSets >>
          ELSE IF IsApproved(approvalPayload)
                 THEN /\ approvalMode' = NewMode(approvalPayload)
                      /\ modeSets' = modeSets + 1
                      /\ planResult' = ApprovedResult(NewMode(approvalPayload), v.path)
                 ELSE IF IsCancelled(confirmationOutcome)
                        THEN /\ planResult' = CancelledResult
                             /\ UNCHANGED << approvalMode, modeSets >>
                        ELSE /\ planResult' = RejectedResult(FeedbackOf(approvalPayload), v.path)
                             /\ UNCHANGED << approvalMode, modeSets >>
  /\ UNCHANGED << aborted, plansDir, built, buildError, params, confirmationOutcome,
                  approvalPayload, requests, confirmResult >>

\* execute, lines 162-206
Execute ==
  /\ built
  /\ executes < MaxExecutes
  /\ executes' = executes + 1
  /\ LET v == ValidatedPlanPath(params, plansDir)
     IN IF ~v.valid
          THEN /\ planResult' = OutsideResult
               /\ UNCHANGED << approvalMode, modeSets >>
          ELSE IF IsCancelled(confirmationOutcome)
                 THEN /\ planResult' = CancelledResult
                      /\ UNCHANGED << approvalMode, modeSets >>
                 ELSE IF IsApproved(approvalPayload)
                        THEN /\ approvalMode' = NewMode(approvalPayload)
                             /\ modeSets' = modeSets + 1
                             /\ planResult' = ApprovedResult(NewMode(approvalPayload), v.path)
                        ELSE /\ planResult' = RejectedResult(FeedbackOf(approvalPayload), v.path)
                             /\ UNCHANGED << approvalMode, modeSets >>
  /\ UNCHANGED << aborted, plansDir, built, buildError, params, confirmationOutcome,
                  approvalPayload, requests, confirmResult >>

(***************************************************************************)
(* BrowserManager: state                                                   *)
(***************************************************************************)
\* largest number of browsers launched, contexts and pages created
MaxBrowsers == 2

MaxContexts == 2

MaxPages == 2

\* the sessions that call getPage() on the process-wide manager
Callers == { "s1", "s2" }

\* null, for the object references of the manager
Null == 0

VARIABLES
  browser,         \* this.browser (line 10): Null or the number of a browser
  context,         \* this.context (line 11)
  page,            \* this.page (line 12)
  connected,       \* per launched browser: what isConnected() answers
  onDisconnected,  \* per launched browser: whether the handler of line 48 is registered
  ctxBrowser,      \* per created context: its browser
  pageCtx,         \* per created page: its context
  pageClosed,      \* per created page: what isClosed() answers
  onClose,         \* per created page: whether the handler of line 43 is registered
  mpc,             \* per caller: where its getPage() call stands
  target,          \* per caller: the object its awaited call was made on
  returned,        \* the page the getPage() call settled last returned, Null if none
  thrown,          \* the error the getPage() call settled last threw, None if none
  closing,         \* whether a close() call awaits browser.close() (line 78)
  closeTarget,     \* the browser that close() is closing
  overlapped       \* whether a call was ever started while another was in flight

mgrVars ==
  << browser, context, page, connected, onDisconnected, ctxBrowser, pageCtx,
     pageClosed, onClose, mpc, target, returned, thrown, closing, closeTarget,
     overlapped >>

MgrInit ==
  /\ browser = Null
  /\ context = Null
  /\ page = Null
  /\ connected = <<>>
  /\ onDisconnected = <<>>
  /\ ctxBrowser = <<>>
  /\ pageCtx = <<>>
  /\ pageClosed = <<>>
  /\ onClose = <<>>
  /\ mpc = [c \in Callers |-> "idle"]
  /\ target = [c \in Callers |-> Null]
  /\ returned = Null
  /\ thrown = None
  /\ closing = FALSE
  /\ closeTarget = Null
  /\ overlapped = FALSE

\* no call on the manager is in flight
Quiet == ~closing /\ \A c \in Callers : mpc[c] = "idle"

\* the browser a page belongs to
BrowserOf(p) == ctxBrowser[pageCtx[p]]

\* !this.browser || !this.browser.isConnected(), line 15
NeedsLaunchAlways == TRUE
NeedsLaunchWhenNull == browser = Null
NeedsLaunch == browser = Null \/ ~connected[browser]

(***************************************************************************)
(* BrowserManager: getPage, close and the events of the browser            *)
(***************************************************************************)
\* the call of caller c ends: it returns page pg, or throws error e
Settle(c, pg, e) ==
  /\ mpc' = [mpc EXCEPT ![c] = "idle"]
  /\ target' = [target EXCEPT ![c] = Null]
  /\ returned' = pg
  /\ thrown' = e

\* the call of caller c awaits at position pos a call made on object obj
Await(c, pos, obj) ==
  /\ mpc' = [mpc EXCEPT ![c] = pos]
  /\ target' = [target EXCEPT ![c] = obj]
  /\ UNCHANGED << returned, thrown >>

\* lines 55-74 with a missing page answered by a new launch
FromLine55Relaunch(c, b, cx, pg, closed) ==
  IF pg = Null \/ closed
    THEN Await(c, "launch", Null)
    ELSE Settle(c, pg, None)

\* lines 55-74, run with this.browser = b, this.context = cx, this.page = pg,
\* pg closed or not
FromLine55(c, b, cx, pg, closed) ==
  IF pg = Null \/ closed
    THEN IF cx = Null
           THEN IF b # Null
                  THEN Await(c, "newContext60", b)
                  ELSE IF pg = Null THEN Settle(c, Null, "Failed to create page")
                       ELSE Settle(c, pg, None)
           ELSE Await(c, "newPage66", cx)
    ELSE Settle(c, pg, None)

\* lines 14-18 and 55-74: a getPage() call up to its first await
GetPage(c) ==
  /\ mpc[c] = "idle"
  /\ IF NeedsLaunch
       THEN Await(c, "launch", Null)
       ELSE FromLine55(c, browser, context, page,
                       IF page = Null THEN FALSE ELSE pageClosed[page])
  /\ UNCHANGED << browser, context, page, connected, onDisconnected, ctxBrowser,
                  pageCtx, pageClosed, onClose, closing, closeTarget >>
  /\ overlapped' = (overlapped \/ ~Quiet)

\* lines 17-36: the import of playwright and chromium.launch settle (no
\* field of the manager is read or written between the two awaits); the
\* browser is stored and newContext called, or the error is thrown
Launch(c) ==
  /\ mpc[c] = "launch"
  /\ \/ /\ Len(connected) < MaxBrowsers
        /\ connected' = Append(connected, TRUE)
        /\ onDisconnected' = Append(onDisconnected, FALSE)
        /\ browser' = Len(connected) + 1
        /\ Await(c, "newContext36", Len(connected) + 1)
     \/ /\ \E e \in { "Playwright is not installed", "launch failed" } :
             Settle(c, Null, e)
        /\ UNCHANGED << browser, connected, onDisconnected >>
  /\ UNCHANGED << context, page, ctxBrowser, pageCtx, pageClosed, onClose,
                  closing, closeTarget >>
  /\ UNCHANGED overlapped

\* lines 36-40: newContext settles; the context is stored and newPage called
NewContext36(c) ==
  /\ mpc[c] = "newContext36"
  /\ IF connected[target[c]]
       THEN /\ Len(ctxBrowser) < MaxContexts
            /\ ctxBrowser' = Append(ctxBrowser, target[c])
            /\ context' = Len(ctxBrowser) + 1
            /\ Await(c, "newPage40", Len(ctxBrowser) + 1)
       ELSE /\ Settle(c, Null, "browser has been closed")
            /\ UNCHANGED << context, ctxBrowser >>
  /\ UNCHANGED << browser, page, connected, onDisconnected, pageCtx, pageClosed,
                  onClose, closing, closeTarget >>
  /\ UNCHANGED overlapped

\* lines 40-74: newPage settles; the page is stored, the close handler is
\* put on this.page and the disconnected handler on this.browser; the new
\* page is returned
NewPage40(c) ==
  /\ mpc[c] = "newPage40"
  /\ IF connected[ctxBrowser[target[c]]]
       THEN /\ Len(pageCtx) < MaxPages
            /\ pageCtx' = Append(pageCtx, target[c])
            /\ pageClosed' = Append(pageClosed, FALSE)
            /\ onClose' = Append(onClose, TRUE)
            /\ page' = Len(pageCtx) + 1
            /\ IF browser = Null
                 THEN /\ Settle(c, Null, "TypeError")
                      /\ UNCHANGED onDisconnected
                 ELSE /\ onDisconnected' = [onDisconnected EXCEPT ![browser] = TRUE]
                      /\ Settle(c, Len(pageCtx) + 1, None)
       ELSE /\ Settle(c, Null, "browser has been closed")
            /\ UNCHANGED << page, pageCtx, pageClosed, onClose, onDisconnected >>
  /\ UNCHANGED << browser, context, connected, ctxBrowser, closing, closeTarget >>
  /\ UNCHANGED overlapped

\* lines 60-66: newContext settles; the context is stored and newPage called
NewContext60(c) ==
  /\ mpc[c] = "newContext60"
  /\ IF connected[target[c]]
       THEN /\ Len(ctxBrowser) < MaxContexts
            /\ ctxBrowser' = Append(ctxBrowser, target[c])
            /\ context' = Len(ctxBrowser) + 1
            /\ Await(c, "newPage66", Len(ctxBrowser) + 1)
       ELSE /\ Settle(c, Null, "browser has been closed")
            /\ UNCHANGED << context, ctxBrowser >>
  /\ UNCHANGED << browser, page, connected, onDisconnected, pageCtx, pageClosed,
                  onClose, closing, closeTarget >>
  /\ UNCHANGED overlapped

\* lines 66-74: newPage settles; the page is stored and returned
NewPage66(c) ==
  /\ mpc[c] = "newPage66"
  /\ IF connected[ctxBrowser[target[c]]]
       THEN /\ Len(pageCtx) < MaxPages
            /\ pageCtx' = Append(pageCtx, target[c])
            /\ pageClosed' = Append(pageClosed, FALSE)
            /\ onClose' = Append(onClose, FALSE)
            /\ page' = Len(pageCtx) + 1
            /\ Settle(c, Len(pageCtx) + 1, None)
       ELSE /\ Settle(c, Null, "browser has been closed")
            /\ UNCHANGED << page, pageCtx, pageClosed, onClose >>
  /\ UNCHANGED << browser, context, connected, onDisconnected, ctxBrowser,
                  closing, closeTarget >>
  /\ UNCHANGED overlapped

\* a page is closed; the handler of lines 43-45 runs if it is on that page
PageCloses(p) ==
  /\ ~pageClosed[p]
  /\ pageClosed' = [pageClosed EXCEPT ![p] = TRUE]
  /\ page' = IF onClose[p] THEN Null ELSE page
  /\ UNCHANGED << browser, context, connected, onDisconnected, ctxBrowser,
                  pageCtx, onClose, mpc, target, returned, thrown, closing,
                  closeTarget >>
  /\ UNCHANGED overlapped

\* a browser disconnects: its pages close, and the handlers of lines 43-45
\* and 48-52 run where they are registered
BrowserDisconnects(b) ==
  /\ connected[b]
  /\ connected' = [connected EXCEPT ![b] = FALSE]
  /\ pageClosed' = [p \in DOMAIN pageClosed |-> pageClosed[p] \/ BrowserOf(p) = b]
  /\ IF onDisconnected[b]
       THEN /\ browser' = Null
            /\ context' = Null
            /\ page' = Null
       ELSE /\ page' = IF \E p \in DOMAIN pageCtx :
                            BrowserOf(p) = b /\ ~pageClosed[p] /\ onClose[p]
                         THEN Null ELSE page
            /\ UNCHANGED << browser, context >>
  /\ UNCHANGED << onDisconnected, ctxBrowser, pageCtx, onClose, mpc, target,
                  returned, thrown, closing, closeTarget >>
  /\ UNCHANGED overlapped

\* line 78: close() calls this.browser?.close() and awaits it
CloseStart ==
  /\ ~closing
  /\ closing' = TRUE
  /\ closeTarget' = browser
  /\ UNCHANGED << browser, context, page, connected, onDisconnected, ctxBrowser,
                  pageCtx, pageClosed, onClose, mpc, target, returned, thrown >>
  /\ overlapped' = (overlapped \/ ~Quiet)

\* lines 79-81: the browser has closed; the references are cleared
CloseEnd ==
  /\ closing
  /\ IF closeTarget = Null THEN TRUE ELSE ~connected[closeTarget]
  /\ closing' = FALSE
  /\ closeTarget' = Null
  /\ browser' = Null
  /\ context' = Null
  /\ page' = Null
  /\ UNCHANGED << connected, onDisconnected, ctxBrowser, pageCtx, pageClosed,
                  onClose, mpc, target, returned, thrown >>
  /\ UNCHANGED overlapped

\* getPage() and close() as callers that serialize their access make them:
\* a call starts only when no other call is in flight
GetPageSerial(c) == Quiet /\ GetPage(c)

CloseStartSerial == Quiet /\ CloseStart

(***************************************************************************)
(* HookRunner: hook runs, results and the aggregate of one event           *)
(*                                                                         *)
(* A hook run is what the subprocess did: whether it outlived the time     *)
(* limit, its exit code, whether its stdout is JSON, and the decision and  *)
(* continue fields that stdout holds.  The hooks of one event are held in  *)
(* registration order.                                                     *)
(***************************************************************************)
MaxHooks == 3

GatedEvents == { "BeforeTool", "BeforeModel", "BeforeAgent" }

Decisions == { "allow", "deny", "block", "ask", "approve" }

HookRun(t, e, j, d, c) ==
  [ timedOut |-> t, exit |-> e, parses |-> j, decision |-> d, continue |-> c ]

HookRuns ==
  { HookRun(FALSE, 0, TRUE, d, c) : d \in Decisions \cup { None }, c \in BOOLEAN }
    \cup { HookRun(FALSE, 0, FALSE, None, TRUE),
           HookRun(FALSE, 1, TRUE, "deny", FALSE),
           HookRun(FALSE, 1, FALSE, None, TRUE),
           HookRun(FALSE, 2, FALSE, None, TRUE),
           HookRun(FALSE, 2, TRUE, "allow", TRUE),
           HookRun(TRUE, 0, TRUE, "deny", FALSE) }

NoDecision == [ decision |-> None, continue |-> TRUE ]

NeverBlockingError(o) == FALSE

IsBlockingError(o) == ~o.timedOut /\ o.exit = 2

IsStructuredAnyExit(o) == o.parses

IsStructured(o) == ~o.timedOut /\ o.exit = 0 /\ o.parses

HookResultOf(o) ==
  IF IsBlockingError(o)
    THEN [ decision |-> "block", continue |-> TRUE ]
    ELSE IF IsStructured(o)
           THEN [ decision |-> o.decision, continue |-> o.continue ]
           ELSE NoDecision

Blocks(d) == d \in { "deny", "block" }

MergeLastWins(acc, r) ==
  [ decision |-> IF r.decision = None THEN acc.decision ELSE r.decision,
    continue |-> acc.continue /\ r.continue ]

Merge(acc, r) ==
  [ decision |-> IF Blocks(acc.decision) \/ r.decision = None
                   THEN acc.decision
                   ELSE r.decision,
    continue |-> acc.continue /\ r.continue ]

RECURSIVE MergeAll(_, _)
MergeAll(acc, rs) ==
  IF rs = << >> THEN acc ELSE MergeAll(Merge(acc, Head(rs)), Tail(rs))

(***************************************************************************)
(* HookRunner: state and steps of one gated event                          *)
(***************************************************************************)
VARIABLES
  hpc,           \* "idle", "running", "merged", "proceeded", "refused"
  hookEvent,     \* the event being gated
  registered,    \* number of hooks registered for it
  hookRuns,      \* the runs of its hooks, in registration order
  hookResults,   \* the result read from each run
  aggregate,     \* the merged result of the event
  loopRunning    \* FALSE once some result carried continue = false

hookVars ==
  << hpc, hookEvent, registered, hookRuns, hookResults, aggregate, loopRunning >>

HookInit ==
  /\ hpc = "idle"
  /\ hookEvent = None
  /\ registered = 0
  /\ hookRuns = << >>
  /\ hookResults = << >>
  /\ aggregate = NoDecision
  /\ loopRunning = TRUE

FireEvent(e, n) ==
  /\ hpc \in { "idle", "proceeded", "refused" }
  /\ loopRunning
  /\ hpc' = "running"
  /\ hookEvent' = e
  /\ registered' = n
  /\ hookRuns' = << >>
  /\ hookResults' = << >>
  /\ aggregate' = NoDecision
  /\ UNCHANGED loopRunning

RunHook(o) ==
  /\ hpc = "running"
  /\ Len(hookRuns) < registered
  /\ hookRuns' = Append(hookRuns, o)
  /\ hookResults' = Append(hookResults, HookResultOf(o))
  /\ UNCHANGED << hpc, hookEvent, registered, aggregate, loopRunning >>

Aggregate ==
  /\ hpc = "running"
  /\ Len(hookRuns) = registered
  /\ hpc' = "merged"
  /\ aggregate' = MergeAll(NoDecision, hookResults)
  /\ UNCHANGED << hookEvent, registered, hookRuns, hookResults, loopRunning >>

Proceed ==
  /\ hpc = "merged"
  /\ ~Blocks(aggregate.decision)
  /\ hpc' = "proceeded"
  /\ loopRunning' = aggregate.continue
  /\ UNCHANGED << hookEvent, registered, hookRuns, hookResults, aggregate >>

Refuse ==
  /\ hpc = "merged"
  /\ Blocks(aggregate.decision)
  /\ hpc' = "refused"
  /\ loopRunning' = aggregate.continue
  /\ UNCHANGED << hookEvent, registered, hookRuns, hookResults, aggregate >>

(***************************************************************************)
(* ProjectRegistry: paths, slugs and short IDs                             *)
(*                                                                         *)
(* A project path is absolute and is the sequence of its segments; a       *)
(* segment, like a short ID, is the sequence of its characters.            *)
(***************************************************************************)
DotDot == << ".", "." >>

ProjectPaths ==
  { << <<"o">>, <<"a", "b">> >>,
    << <<"t">>, <<"a", "b">> >>,
    << <<"o">>, <<"A", "b">> >>,
    << <<"o">>, <<"a", "b">>, DotDot, <<"a", "b">> >>,
    << <<"t">>, <<"a", "b", "-", "1">> >>,
    << <<"t">>, <<" ", "A", "!", " ", "b", "-">> >>,
    << <<"o">>, <<"!">> >>,
    << >> }

Platforms == { "linux", "win32" }

LowerChar(c) == CASE c = "A" -> "a" [] c = "B" -> "b" [] OTHER -> c

ToLowerCase(text) == [ k \in 1..Len(text) |-> LowerChar(text[k]) ]

DigitChars == << "0", "1", "2", "3", "4", "5", "6", "7", "8", "9" >>

RECURSIVE Digits(_)
\* the decimal digits of a counter, as `${counter}` prints them
Digits(n) ==
  IF n < 10 THEN << DigitChars[n + 1] >>
  ELSE Digits(n \div 10) \o << DigitChars[(n % 10) + 1] >>

RECURSIVE ResolveSegments(_, _)
\* path.resolve on an absolute path: ".." removes the segment before it
ResolveSegments(done, todo) ==
  IF todo = << >> THEN done
  ELSE IF Head(todo) = DotDot
         THEN ResolveSegments(IF done = << >> THEN << >>
                              ELSE SubSeq(done, 1, Len(done) - 1),
                              Tail(todo))
         ELSE ResolveSegments(Append(done, Head(todo)), Tail(todo))

\* path.basename: the last segment, empty for the root
Basename(path) == IF path = << >> THEN << >> ELSE path[Len(path)]

ProjectSlug == << "p", "r", "o", "j", "e", "c", "t" >>

IsSlugChar(c) == c \in { "a", "b", "p", "r", "o", "j", "e", "c", "t" } \/
  \E k \in 1..Len(DigitChars) : DigitChars[k] = c

\* .replace(/[^a-z0-9]/g, '-')
ReplaceOthers(text) ==
  [ k \in 1..Len(text) |-> IF IsSlugChar(text[k]) THEN text[k] ELSE "-" ]

RECURSIVE CollapseDashes(_)
\* .replace(/-+/g, '-')
CollapseDashes(text) ==
  IF Len(text) < 2 THEN text
  ELSE IF text[1] = "-" /\ text[2] = "-"
         THEN CollapseDashes(Tail(text))
         ELSE << text[1] >> \o CollapseDashes(Tail(text))

\* .replace(/^-|-$/g, '')
StripDashes(text) ==
  LET front == IF text # << >> /\ Head(text) = "-" THEN Tail(text) ELSE text
  IN IF front # << >> /\ front[Len(front)] = "-"
       THEN SubSeq(front, 1, Len(front) - 1)
       ELSE front

slugify(text) ==
  LET s == StripDashes(CollapseDashes(ReplaceOthers(ToLowerCase(text))))
  IN IF s = << >> THEN ProjectSlug ELSE s

\* Object.values(existing)
ExistingIds(projects) == { projects[q] : q \in DOMAIN projects }

RECURSIVE NextCandidate(_, _, _)
\* the while loop of generateUniqueShortId, entered with candidate taken
NextCandidate(slug, counter, existingIds) ==
  LET candidate == slug \o << "-" >> \o Digits(counter)
  IN IF candidate \in existingIds
       THEN NextCandidate(slug, counter + 1, existingIds)
       ELSE candidate

\* the slug taken without looking at the IDs in use
generateSlugOnly(projectPath, existing) ==
  slugify(IF Basename(projectPath) = << >> THEN ProjectSlug
          ELSE Basename(projectPath))

generateUniqueShortId(projectPath, existing) ==
  LET baseName == IF Basename(projectPath) = << >> THEN ProjectSlug
                  ELSE Basename(projectPath)
      slug == slugify(baseName)
  IN IF slug \in ExistingIds(existing)
       THEN NextCandidate(slug, 1, ExistingIds(existing))
       ELSE slug

(***************************************************************************)
(* ProjectRegistry: the registry file and getShortId                       *)
(*                                                                         *)
(* An instance holds nothing but the path of the registry file, so the     *)
(* state is the file system: the directory, the registry file and the      *)
(* temporary file save writes before renaming it.  getShortId is           *)
(* synchronous, so one call is one step.                                   *)
(***************************************************************************)
VARIABLES
  platform,   \* os.platform(), None before the host is known
  regFile,    \* the registry file: its directory, its state, its projects
  regTmp,     \* the file `${registryPath}.tmp`
  lastCall,   \* the last getShortId call: its argument and what it returned
  sessions    \* per CLI process on the same registry file: its getShortId call

regVars == << platform, regFile, regTmp, lastCall, sessions >>

NoProjects == [ q \in {} |-> << >> ]

RegistryFile(dir, state, projects) ==
  [ dir |-> dir, state |-> state, projects |-> projects ]

NoTmp == [ exists |-> FALSE, projects |-> NoProjects ]

NoCall == [ path |-> << >>, id |-> << >>, threw |-> FALSE, called |-> FALSE ]

\* what save can run into: nothing, mkdirSync throwing (line 304, outside
\* the try), writeFileSync throwing, renameSync throwing
SaveOutcomes == { "saved", "mkdirThrows", "writeFails", "renameFails" }

\* the registry files a first call can find: none and no directory, none
\* in an existing directory, one that is not JSON
FirstFiles ==
  { RegistryFile(FALSE, "absent", NoProjects),
    RegistryFile(TRUE, "absent", NoProjects),
    RegistryFile(TRUE, "corrupt", NoProjects) }

\* the CLI processes that use the registry file at the same time, each
\* through its own ProjectRegistry instance (lines 161-162)
Sessions == { 1, 2 }

NoSession == [ pc |-> "idle", path |-> << >>, data |-> NoProjects, id |-> << >> ]

RegInit ==
  /\ platform = None
  /\ regFile = RegistryFile(FALSE, "absent", NoProjects)
  /\ regTmp = NoTmp
  /\ lastCall = NoCall
  /\ sessions = [ s \in Sessions |-> NoSession ]

\* the machine the registry is used on: its platform and what is on disk
\* before the first call
Host(pl, file) ==
  /\ platform = None
  /\ platform' = pl
  /\ regFile' = file
  /\ UNCHANGED << regTmp, lastCall, sessions >>

normalizePath(projectPath) ==
  LET resolved == ResolveSegments(<< >>, projectPath)
  IN IF platform = "win32"
       THEN [ k \in 1..Len(resolved) |-> ToLowerCase(resolved[k]) ]
       ELSE resolved

loadAlwaysFresh == NoProjects

load == IF regFile.state = "ok" THEN regFile.projects ELSE NoProjects

\* data.projects[normalizedPath] = shortId
WithProject(projects, np, shortId) ==
  [ q \in DOMAIN projects \cup { np } |-> IF q = np THEN shortId ELSE projects[q] ]

\* save(data) with outcome o, for o other than mkdirThrows
save(data, o) ==
  /\ regFile' = IF o = "saved" THEN RegistryFile(TRUE, "ok", data)
                ELSE [ regFile EXCEPT !.dir = TRUE ]
  /\ regTmp' = CASE o = "saved" -> NoTmp
                 [] o = "renameFails" -> [ exists |-> TRUE, projects |-> data ]
                 [] OTHER -> regTmp

getShortId(projectPath, o) ==
  LET data == load
      normalizedPath == normalizePath(projectPath)
  IN IF normalizedPath \in DOMAIN data
       THEN /\ o = "saved"
            /\ lastCall' = [ path |-> projectPath, id |-> data[normalizedPath],
                             threw |-> FALSE, called |-> TRUE ]
            /\ UNCHANGED << regFile, regTmp >>
       ELSE LET shortId == generateUniqueShortId(normalizedPath, data)
            IN IF o = "mkdirThrows"
                 THEN /\ ~regFile.dir
                      /\ lastCall' = [ path |-> projectPath, id |-> << >>,
                                       threw |-> TRUE, called |-> TRUE ]
                      /\ UNCHANGED << regFile, regTmp >>
                 ELSE /\ save(WithProject(data, normalizedPath, shortId), o)
                      /\ lastCall' = [ path |-> projectPath, id |-> shortId,
                                       threw |-> FALSE, called |-> TRUE ]

GetShortId ==
  /\ platform # None
  /\ \E projectPath \in ProjectPaths, o \in SaveOutcomes :
       getShortId(projectPath, o)
  /\ UNCHANGED << platform, sessions >>

\* lines 326-331 in process s: the file is read and the path looked up;
\* another process can run before line 333
SessionLoads(s, projectPath) ==
  /\ platform # None
  /\ sessions[s].pc = "idle"
  /\ LET data == load
         normalizedPath == normalizePath(projectPath)
     IN sessions' =
          [ sessions EXCEPT ![s] =
              IF normalizedPath \in DOMAIN data
                THEN [ pc |-> "returned", path |-> projectPath, data |-> data,
                       id |-> data[normalizedPath] ]
                ELSE [ pc |-> "loaded", path |-> projectPath, data |-> data,
                       id |-> << >> ] ]
  /\ UNCHANGED << platform, regFile, regTmp, lastCall >>

\* lines 333-336 in process s: the id is generated from the data read at
\* line 326, the data is saved with outcome o and the id returned
SessionSaves(s, o) ==
  /\ sessions[s].pc = "loaded"
  /\ LET data == sessions[s].data
         normalizedPath == normalizePath(sessions[s].path)
         shortId == generateUniqueShortId(normalizedPath, data)
     IN IF o = "mkdirThrows"
          THEN /\ ~regFile.dir
               /\ sessions' = [ sessions EXCEPT ![s].pc = "threw" ]
               /\ UNCHANGED << regFile, regTmp >>
          ELSE /\ save(WithProject(data, normalizedPath, shortId), o)
               /\ sessions' = [ sessions EXCEPT ![s].pc = "returned",
                                                ![s].id = shortId ]
  /\ UNCHANGED << platform, lastCall >>

(***************************************************************************)
(* Specifications                                                          *)
(***************************************************************************)
vars == << agentVars, planVars, mgrVars, hookVars, regVars >>

Init == AgentInit /\ PlanInit /\ MgrInit /\ HookInit /\ RegInit

AgentNext ==
  \/ Start /\ UNCHANGED << planVars, mgrVars, hookVars, regVars >>
  \/ Activate /\ UNCHANGED << planVars, mgrVars, hookVars, regVars >>
  \/ CaptureStart /\ UNCHANGED << planVars, mgrVars, hookVars, regVars >>
  \/ CaptureObserve /\ UNCHANGED << planVars, mgrVars, hookVars, regVars >>
  \/ ModelRequest /\ UNCHANGED << planVars, mgrVars, hookVars, regVars >>
  \/ ModelThrows /\ UNCHANGED << planVars, mgrVars, hookVars, regVars >>
  \/ ModelNoContent /\ UNCHANGED << planVars, mgrVars, hookVars, regVars >>
  \/ ModelFinishes /\ UNCHANGED << planVars, mgrVars, hookVars, regVars >>
  \/ ModelCalls /\ UNCHANGED << planVars, mgrVars, hookVars, regVars >>
  \/ CheckSafety /\ UNCHANGED << planVars, mgrVars, hookVars, regVars >>
  \/ ToolReturns /\ UNCHANGED << planVars, mgrVars, hookVars, regVars >>
  \/ ToolThrows /\ UNCHANGED << planVars, mgrVars, hookVars, regVars >>
  \/ ToolUnknown /\ UNCHANGED << planVars, mgrVars, hookVars, regVars >>
  \/ PostCaptureObserve /\ UNCHANGED << planVars, mgrVars, hookVars, regVars >>
  \/ Exhausted /\ UNCHANGED << planVars, mgrVars, hookVars, regVars >>

PlanNext ==
  \/ Build /\ UNCHANGED << agentVars, mgrVars, hookVars, regVars >>
  \/ ChangePlansDir /\ UNCHANGED << agentVars, mgrVars, hookVars, regVars >>
  \/ ShouldConfirmExecute /\ UNCHANGED << agentVars, mgrVars, hookVars, regVars >>
  \/ OnConfirm /\ UNCHANGED << agentVars, mgrVars, hookVars, regVars >>
  \/ Abort /\ UNCHANGED << agentVars, mgrVars, hookVars, regVars >>
  \/ Execute /\ UNCHANGED << agentVars, mgrVars, hookVars, regVars >>

\* the plan approval with the payload types of the resolutions kept
PlanTraceNext ==
  \/ Build /\ UNCHANGED << agentVars, mgrVars, hookVars, regVars >>
  \/ ChangePlansDir /\ UNCHANGED << agentVars, mgrVars, hookVars, regVars >>
  \/ ShouldConfirmExecute /\ UNCHANGED << agentVars, mgrVars, hookVars, regVars >>
  \/ OnConfirmTraced /\ UNCHANGED << agentVars, mgrVars, hookVars, regVars >>
  \/ Abort /\ UNCHANGED << agentVars, mgrVars, hookVars, regVars >>
  \/ Execute /\ UNCHANGED << agentVars, mgrVars, hookVars, regVars >>

MgrNext ==
  \/ (\E c \in Callers : GetPage(c)) /\ UNCHANGED << agentVars, planVars, hookVars, regVars >>
  \/ (\E c \in Callers : Launch(c)) /\ UNCHANGED << agentVars, planVars, hookVars, regVars >>
  \/ (\E c \in Callers : NewContext36(c)) /\ UNCHANGED << agentVars, planVars, hookVars, regVars >>
  \/ (\E c \in Callers : NewPage40(c)) /\ UNCHANGED << agentVars, planVars, hookVars, regVars >>
  \/ (\E c \in Callers : NewContext60(c)) /\ UNCHANGED << agentVars, planVars, hookVars, regVars >>
  \/ (\E c \in Callers : NewPage66(c)) /\ UNCHANGED << agentVars, planVars, hookVars, regVars >>
  \/ (\E p \in DOMAIN pageClosed : PageCloses(p)) /\ UNCHANGED << agentVars, planVars, hookVars, regVars >>
  \/ (\E b \in DOMAIN connected : BrowserDisconnects(b)) /\ UNCHANGED << agentVars, planVars, hookVars, regVars >>
  \/ CloseStart /\ UNCHANGED << agentVars, planVars, hookVars, regVars >>
  \/ CloseEnd /\ UNCHANGED << agentVars, planVars, hookVars, regVars >>

HookNext ==
  \/ (\E e \in GatedEvents, n \in 0..MaxHooks : FireEvent(e, n)) /\ UNCHANGED << agentVars, planVars, mgrVars, regVars >>
  \/ (\E o \in HookRuns : RunHook(o)) /\ UNCHANGED << agentVars, planVars, mgrVars, regVars >>
  \/ Aggregate /\ UNCHANGED << agentVars, planVars, mgrVars, regVars >>
  \/ Proceed /\ UNCHANGED << agentVars, planVars, mgrVars, regVars >>
  \/ Refuse /\ UNCHANGED << agentVars, planVars, mgrVars, regVars >>

RegNext ==
  \/ (\E pl \in Platforms, file \in FirstFiles : Host(pl, file)) /\ UNCHANGED << agentVars, planVars, mgrVars, hookVars >>
  \/ GetShortId /\ UNCHANGED << agentVars, planVars, mgrVars, hookVars >>

\* the registry file used by several processes at once
RegRaceNext ==
  \/ (\E pl \in Platforms, file \in FirstFiles : Host(pl, file)) /\ UNCHANGED << agentVars, planVars, mgrVars, hookVars >>
  \/ (\E s \in Sessions, projectPath \in ProjectPaths : SessionLoads(s, projectPath)) /\ UNCHANGED << agentVars, planVars, mgrVars, hookVars >>
  \/ (\E s \in Sessions, o \in SaveOutcomes : SessionSaves(s, o)) /\ UNCHANGED << agentVars, planVars, mgrVars, hookVars >>

\* the steps of the manager under serialized calls; line 60 is not among
\* them, a connected browser without a context arising only when calls
\* overlap
MgrSerialNext ==
  \/ (\E c \in Callers : GetPageSerial(c)) /\ UNCHANGED << agentVars, planVars, hookVars, regVars >>
  \/ (\E c \in Callers : Launch(c)) /\ UNCHANGED << agentVars, planVars, hookVars, regVars >>
  \/ (\E c \in Callers : NewContext36(c)) /\ UNCHANGED << agentVars, planVars, hookVars, regVars >>
  \/ (\E c \in Callers : NewPage40(c)) /\ UNCHANGED << agentVars, planVars, hookVars, regVars >>
  \/ (\E c \in Callers : NewPage66(c)) /\ UNCHANGED << agentVars, planVars, hookVars, regVars >>
  \/ (\E p \in DOMAIN pageClosed : PageCloses(p)) /\ UNCHANGED << agentVars, planVars, hookVars, regVars >>
  \/ (\E b \in DOMAIN connected : BrowserDisconnects(b)) /\ UNCHANGED << agentVars, planVars, hookVars, regVars >>
  \/ CloseStartSerial /\ UNCHANGED << agentVars, planVars, hookVars, regVars >>
  \/ CloseEnd /\ UNCHANGED << agentVars, planVars, hookVars, regVars >>

AgentSpec == Init /\ [][AgentNext]_vars

PlanSpec == Init /\ [][PlanNext]_vars

PlanTraceSpec == Init /\ [][PlanTraceNext]_vars

MgrSpec == Init /\ [][MgrNext]_vars

MgrSerialSpec == Init /\ [][MgrSerialNext]_vars

HookSpec == Init /\ [][HookNext]_vars

RegSpec == Init /\ [][RegNext]_vars

RegRaceSpec == Init /\ [][RegRaceNext]_vars

(***************************************************************************)
(* Properties of runTask                                                   *)
(***************************************************************************)
Contains(msg, tok) == \E k \in 1..Len(msg) : msg[k] = tok

NeedsConfirmation(call) == call.decision = "require_confirmation"

Dispatching == pc \in {"checkSafety", "tool", "postCapturing"}

Executed == { execLog[k].call : k \in 1..Len(execLog) }

Threw == { execLog[k].call : k \in { n \in 1..Len(execLog) : execLog[n].threw } }

\* the function responses of the turn dispatched last, once it is complete
TurnResponses ==
  IF pc \in {"capture", "capturing"} /\ currentPrompt.type = "parts"
    THEN currentPrompt.parts ELSE <<>>

\* C1: a call that requires safety confirmation is never handed to its tool;
\* the turn that holds it never completes; neither that call nor a later
\* one of the turn is executed; the run ends by the return of line 178 at
\* that call, with its name and explanation in the message.
C1_SafetyHalt ==
  /\ pc \in {"tool", "postCapturing"} => ~NeedsConfirmation(functionCalls[idx])
  /\ \A k \in 1..Len(functionCalls) :
       NeedsConfirmation(functionCalls[k]) =>
         /\ Dispatching \/ pc = "done"
         /\ idx <= k
         /\ \A e \in Executed : e < k
         /\ modelCalls = i + 1
  /\ exit = "return178" =>
       /\ pc = "done"
       /\ NeedsConfirmation(functionCalls[idx])
       /\ Contains(result, functionCalls[idx].name)
       /\ Contains(result, functionCalls[idx].explanation)
       /\ Len(functionResponses) = idx - 1

C1_Witness ==
  /\ exit = "return178"
  /\ idx = 2
  /\ Executed = {1}
  /\ result = SafetyMessage(CallPart("click_at", "require_confirmation", "e1"))

\* steps one iteration takes at most: capture, turn, request, response, and
\* three per call
IterationSteps == 4 + 3 * MaxParts

\* an upper bound on the steps runTask still takes
StepsLeft ==
  CASE pc = "done" -> 0
    [] pc = "exhausted" -> 1
    [] pc = "start" -> (MAX_ITERATIONS + 1) * IterationSteps + 2
    [] pc = "activate" -> (MAX_ITERATIONS + 1) * IterationSteps + 1
    [] pc = "capture" -> (MAX_ITERATIONS - i) * IterationSteps + IterationSteps
    [] pc = "capturing" -> (MAX_ITERATIONS - i) * IterationSteps + IterationSteps - 1
    [] pc = "callModel" -> (MAX_ITERATIONS - i) * IterationSteps + IterationSteps - 2
    [] pc = "awaitModel" -> (MAX_ITERATIONS - i) * IterationSteps + IterationSteps - 3
    [] pc = "checkSafety" ->
         (MAX_ITERATIONS - i) * IterationSteps + 3 * (Len(functionCalls) - idx) + 3
    [] pc = "tool" ->
         (MAX_ITERATIONS - i) * IterationSteps + 3 * (Len(functionCalls) - idx) + 2
    [] pc = "postCapturing" ->
         (MAX_ITERATIONS - i) * IterationSteps + 3 * (Len(functionCalls) - idx) + 1

\* C2: the model is called at most MAX_ITERATIONS times, once per turn; the
\* counter moves only up and by one; a run whose every turn was dispatched
\* in full has called the model exactly MAX_ITERATIONS times and returns the
\* message that names 20; and every run ends: each step lowers a bound on
\* the steps left, and only a run that has returned or thrown cannot step.
C2_Bounded ==
  /\ [](/\ modelCalls <= MAX_ITERATIONS
        /\ i <= MAX_ITERATIONS
        /\ modelCalls \in {i, i + 1}
        /\ i = MAX_ITERATIONS =>
             /\ pc \in {"exhausted", "done"}
             /\ modelCalls = MAX_ITERATIONS
        /\ (pc = "done" /\ i = MAX_ITERATIONS) =>
             /\ exit = "return303"
             /\ result = ExhaustedMessage
             /\ Contains(result, "20"))
  /\ [](StepsLeft >= 0 /\ (pc # "done" => ENABLED AgentNext))
  /\ [][i' = i + 1]_i
  /\ [][StepsLeft' < StepsLeft]_vars

C2_Witness ==
  /\ pc = "done"
  /\ i = MAX_ITERATIONS
  /\ modelCalls = 20
  /\ result = ExhaustedMessage

RECURSIVE ConcatAll(_)
ConcatAll(seqs) == IF seqs = <<>> THEN <<>> ELSE Head(seqs) \o ConcatAll(Tail(seqs))

\* the texts of the text parts, in order
TextsOf(parts) ==
  LET texts == SelectSeq(parts, LAMBDA p : p.kind = "text")
  IN [k \in 1..Len(texts) |-> texts[k].text]

\* C3: a response without function calls is never dispatched; the run ends
\* with it, returning the concatenation of its text parts, with no tool
\* executed and no model call after it.
C3_TextTurnCompletes ==
  /\ Dispatching => /\ functionCalls # <<>>
                    /\ idx \in 1..Len(functionCalls)
  /\ exit = "return161" =>
       /\ pc = "done"
       /\ response.content
       /\ \A k \in 1..Len(response.parts) : response.parts[k].kind # "functionCall"
       /\ result = ConcatAll(TextsOf(response.parts))
       /\ execLog = <<>>
       /\ functionResponses = <<>>
       /\ modelCalls = i + 1
       /\ Len(contents) = 2 * modelCalls

C3_Witness ==
  /\ exit = "return161"
  /\ i = 1
  /\ result = <<"b", "a">>

\* the run ended by the break of line 137
EndedWithoutContent == pc = "done" /\ exit = "return303" /\ i < MAX_ITERATIONS

\* C4: a run ended by a model response without content returns the empty
\* result, not the message of the exhausted outcome.
C4_NoContentCompletes ==
  EndedWithoutContent => (result = <<>> /\ result # ExhaustedMessage)

\* the indicator is released: the border is inactive, or the overlay was
\* removed after the border was last updated
OverlayReleased == ~border.active \/ lastOverlayCall = "remove"

\* C5: no run that activated the overlay ends with it active.
C5_OverlayReleased ==
  (pc = "done" /\ exit # "return52") => OverlayReleased

\* C6: a throwing tool yields the error response of its call and the turn
\* goes on as after a tool that returned: the call is captured and answered,
\* the responses of a completed turn hold one part per call, the thrown
\* ones carrying the message, and the only exits after a throw are the
\* safety halt of a later call, the ceiling and a rejected model call.
C6_ToolThrowContained ==
  /\ \A k \in Threw :
       /\ k <= idx
       /\ (k = idx /\ pc = "postCapturing") => funcResult.error = <<"boom">>
       /\ k <= Len(functionResponses) =>
            /\ functionResponses[k].response.error = <<"boom">>
            /\ functionResponses[k].name = functionCalls[k].name
       /\ TurnResponses # <<>> => TurnResponses[k].response.error = <<"boom">>
       /\ pc = "done" =>
            \/ exit = "return178" /\ idx > k
            \/ exit = "return303" /\ i = MAX_ITERATIONS
            \/ exit = "throw125" /\ modelCalls = i + 1
  /\ (Threw # {} /\ pc \in {"capture", "capturing"}) =>
       Len(TurnResponses) = Len(functionCalls)

C6_Witness ==
  /\ pc = "awaitModel"
  /\ Threw = {1}
  /\ Executed = {1, 2}
  /\ i = 1
  /\ modelCalls = 2

\* C7: a call whose name is no known tool gets the response
\* {error: 'Unknown tool: <name>'}; no tool function is invoked for it; the
\* calls after it are dispatched.
C7_UnknownTool ==
  /\ \A e \in Executed : functionCalls[e].name \in KnownTools
  /\ \A k \in 1..Len(functionCalls) :
       functionCalls[k].name \notin KnownTools /\ ~NeedsConfirmation(functionCalls[k]) =>
         /\ (k = idx /\ pc = "postCapturing") =>
              funcResult.error = <<"Unknown tool: ", functionCalls[k].name>>
         /\ k <= Len(functionResponses) =>
              functionResponses[k].response.error = <<"Unknown tool: ", functionCalls[k].name>>
         /\ TurnResponses # <<>> =>
              /\ Len(TurnResponses) = Len(functionCalls)
              /\ TurnResponses[k].response.error = <<"Unknown tool: ", functionCalls[k].name>>
         /\ pc = "done" =>
              \/ exit = "return178" /\ idx # k
              \/ exit = "return303" /\ i = MAX_ITERATIONS
              \/ exit = "throw125" /\ modelCalls = i + 1

C7_Witness ==
  /\ pc = "capturing"
  /\ Len(TurnResponses) = 2
  /\ TurnResponses[1].response.error = <<"Unknown tool: ", "bogus_tool">>
  /\ TurnResponses[2].response.error = <<>>
  /\ Executed = {2}

\* C8: whatever a capture runs into, the step it belongs to completes: the
\* capture at the start of an iteration is followed by the user turn and
\* the model call, the capture after a tool by the function response of the
\* call; no capture ends the run.
C8_CaptureBestEffort ==
  [][/\ pc = "capturing" =>
          /\ pc' = "callModel"
          /\ exit' = exit
          /\ newContent'.role = "user"
          /\ Len(newContent'.parts) >= 1
          /\ contents' = Append(contents, [role |-> "user", iter |-> i])
     /\ pc = "callModel" => pc' = "awaitModel" /\ modelCalls' = modelCalls + 1
     /\ pc = "postCapturing" =>
          /\ exit' = exit
          /\ \/ /\ pc' = "checkSafety"
                /\ Len(functionResponses') = idx
                /\ functionResponses'[idx].name = functionCalls[idx].name
                /\ functionResponses'[idx].response = funcResult
             \/ /\ pc' \in {"capture", "exhausted"}
                /\ Len(currentPrompt'.parts) = idx
                /\ currentPrompt'.parts[idx].name = functionCalls[idx].name
                /\ currentPrompt'.parts[idx].response = funcResult]_vars

\* a first user turn without observation, and a function response without
\* observation right after a tool ran
C8_Witness ==
  /\ pc = "checkSafety"
  /\ idx = 2
  /\ functionResponses[1].parts = <<>>
  /\ functionResponses[1].response.error = <<>>
  /\ i = 1

\* the awaited operations of runTask that have started and not yet settled
InFlight ==
  (IF pc = "awaitModel" THEN {"model"} ELSE {})
  \cup (IF pc = "tool" THEN {"tool"} ELSE {})
  \cup (IF pc \in {"capturing", "postCapturing"} THEN {"capture"} ELSE {})

\* C20: at most one of model call, tool execution and capture is in flight;
\* the tool of call k is started only after the calls before it were run,
\* captured and answered, in order; a model call is made and a turn is
\* started only when no call of the turn before is left unanswered.
C20_Sequential ==
  /\ [](/\ Cardinality(InFlight) <= 1
        /\ pc \in {"tool", "postCapturing"} => Len(functionResponses) = idx - 1
        /\ pc = "tool" => funcResult = EmptyResult
        /\ pc \in {"capture", "capturing", "callModel", "awaitModel"} =>
             /\ functionResponses = <<>>
             /\ funcResult = EmptyResult
        /\ \A k \in 1..Len(execLog) :
             /\ execLog[k].call <= idx
             /\ k > 1 => execLog[k - 1].call < execLog[k].call)
  /\ [][/\ i' # i =>
             /\ pc = "postCapturing"
             /\ idx = Len(functionCalls)
             /\ Len(currentPrompt'.parts) = Len(functionCalls)
             /\ \A k \in 1..Len(functionCalls) :
                  currentPrompt'.parts[k].name = functionCalls[k].name
        /\ (pc' = "tool" /\ pc # "tool") =>
             /\ pc = "checkSafety"
             /\ Len(functionResponses) = idx - 1
        /\ modelCalls' # modelCalls =>
             /\ pc = "callModel"
             /\ functionResponses = <<>>
        /\ (pc' = "capturing" /\ pc # "capturing") => pc = "capture"
        /\ (pc' = "postCapturing" /\ pc # "postCapturing") => pc = "tool"]_vars

\* the second call of the second turn is running, the first one answered
C20_Witness ==
  /\ pc = "tool"
  /\ i = 1
  /\ idx = 2
  /\ Len(functionResponses) = 1
  /\ Len(execLog) = 1
  /\ modelCalls = 2

\* C22: runTask ends at the return of line 52 exactly with the result
\* 'Error: Playwright is not installed...'; it then has called no model, run
\* no tool, pushed no turn, never touched the overlay and logged nothing; no
\* other failure of the initial getPage() ends the run there.
C22_PlaywrightMissing ==
  /\ [](/\ exit = "return52" =>
             /\ pc = "done"
             /\ result = << "Error: ",
                            "Playwright is not installed. Please install it to use the browser agent: npm install playwright" >>
             /\ modelCalls = 0
             /\ execLog = <<>>
             /\ contents = <<>>
             /\ lastOverlayCall = "none"
             /\ ~border.active
             /\ ~warned
        /\ (result # <<>> /\ Head(result) = "Error: ") => exit = "return52"
        /\ warned => exit # "return52")
  /\ [][pc = "start" =>
          /\ pc' \in {"done", "activate"}
          /\ pc' = "done" => exit' = "return52"
          /\ pc' = "activate" => exit' = None /\ result' = <<>>]_vars

C22_Witness ==
  /\ pc = "done"
  /\ exit = "return52"
  /\ modelCalls = 0

\* the text part made of the initial prompt
InitialTextPart == [kind |-> "text", text |-> <<"SYSTEM", "task">>]

\* C23 as stated: after a failure of the initial getPage() that was logged,
\* the first user turn handed to the model carries no observation part.
C23_DegradedNoObservation ==
  (warned /\ pc = "callModel" /\ i = 0) => newContent.parts = << InitialTextPart >>

\* C23: a failure of the initial getPage() other than the missing dependency
\* is logged and does not end the run: the overlay is activated, the loop is
\* entered, and the model is called with a user turn that begins with the
\* task text; the capture of that iteration is attempted again, and the
\* turn carries observation parts only as far as that capture yielded them.
C23_DegradedProceeds ==
  /\ [](result # << "Error: ", "Failed to create page" >>)
  /\ [](warned =>
          /\ exit # "return52"
          /\ pc \notin {"start"}
          /\ pc = "done" => modelCalls >= 1
          /\ pc # "done" => ENABLED AgentNext
          /\ (pc \in {"callModel"} /\ i = 0) =>
               /\ newContent.role = "user"
               /\ newContent.parts[1] = InitialTextPart
               /\ \A k \in 2..Len(newContent.parts) :
                    newContent.parts[k].kind \in {"text", "inlineData"}
               /\ Len(newContent.parts) <= 3)
  /\ [][/\ (pc = "start" /\ warned') => pc' = "activate"
        /\ (warned /\ pc = "activate") => pc' = "capture" /\ border'.active
        /\ (warned /\ pc = "capturing") => pc' = "callModel"
        /\ (warned /\ pc = "callModel") => modelCalls' = modelCalls + 1]_vars

\* the degraded first turn: nothing but the task text
C23_Witness ==
  /\ warned
  /\ pc = "callModel"
  /\ i = 0
  /\ newContent.parts = << InitialTextPart >>
  /\ border.active
  /\ Len(contents) = 1

\* C24: the history only grows, one turn at a time and at its end; when
\* the model is called for the n-th time the history is user, model, user,
\* ..., user with 2n - 1 turns, the turns of iteration k at places 2k + 1
\* and 2k + 2, so each call's history is the one of the call before with one
\* model turn and one user turn appended.
C24_HistoryAppendOnly ==
  /\ [](/\ \A k \in 1..Len(contents) :
             /\ contents[k].role = IF k % 2 = 1 THEN "user" ELSE "model"
             /\ contents[k].iter = (k - 1) \div 2
        /\ pc = "awaitModel" => Len(contents) = 2 * modelCalls - 1)
  /\ [][/\ contents' # contents =>
             /\ Len(contents') = Len(contents) + 1
             /\ SubSeq(contents', 1, Len(contents)) = contents
        /\ modelCalls' # modelCalls =>
             /\ modelCalls' = modelCalls + 1
             /\ contents' = contents
             /\ Len(contents) = 2 * modelCalls + 1
             /\ contents[Len(contents)].role = "user"]_vars

\* the third model call, on a history of five turns
C24_Witness ==
  /\ pc = "awaitModel"
  /\ modelCalls = 3
  /\ Len(contents) = 5
  /\ contents[4] = [role |-> "model", iter |-> 1]

\* C25: a user turn built from the text prompt is the text followed by the
\* observation parts of its capture; a user turn built from function
\* responses is exactly those function-response parts, with no top-level
\* observation part; the pending prompt is the text exactly in the first
\* iteration.
C25_ObservationOnlyWithText ==
  [][(pc = "capturing" /\ pc' = "callModel") =>
       /\ newContent'.role = "user"
       /\ (currentPrompt.type = "string") <=> (i = 0)
       /\ currentPrompt.type = "string" =>
            /\ newContent'.parts[1] = [kind |-> "text", text |-> currentPrompt.text]
            /\ \A k \in 2..Len(newContent'.parts) :
                 newContent'.parts[k].kind \in {"text", "inlineData"}
       /\ currentPrompt.type # "string" =>
            /\ currentPrompt.type = "parts"
            /\ currentPrompt.parts # <<>>
            /\ newContent'.parts = currentPrompt.parts
            /\ \A k \in 1..Len(newContent'.parts) :
                 newContent'.parts[k].kind = "functionResponse"]_vars

\* a turn of two function responses, and nothing after them
C25_Witness ==
  /\ pc = "callModel"
  /\ i = 1
  /\ Len(newContent.parts) = 2
  /\ newContent.parts[2].kind = "functionResponse"
  /\ newContent.parts[2].parts # <<>>

\* the function responses held for the model: pushed in this turn or
\* pending as the next prompt
HeldResponses ==
  functionResponses
    \o (IF currentPrompt.type = "parts" THEN currentPrompt.parts ELSE <<>>)

UrlRule ==
  IF urlStep.own # None
    THEN urlStep.own
    ELSE IF urlStep.page = "page" THEN "https://page.example" ELSE "about:blank"

\* C29: the result of a dispatched call carries the url the tool returned
\* when it returned one, otherwise the URL of the page, and 'about:blank'
\* when getPage rejected; the response pushed for the call carries that url,
\* and no response held for the model is without a url.
C29_ResponseUrl ==
  /\ [](pc = "postCapturing" => funcResult.url = UrlRule)
  /\ [](\A k \in 1..Len(HeldResponses) :
          HeldResponses[k].response.url
            \in { "https://tool.example", "https://page.example", "about:blank" })
  /\ [][pc = "postCapturing" =>
          /\ Len(HeldResponses') > 0
          /\ HeldResponses'[Len(HeldResponses')].response.url = funcResult.url]_vars

C29_Witness ==
  /\ pc = "postCapturing"
  /\ urlStep.own = None
  /\ urlStep.page \in { "playwrightMissing", "error" }
  /\ funcResult.url = "about:blank"
  /\ Len(functionResponses) > 0
  /\ functionResponses[1].response.url = "https://page.example"

\* the observations a function response can carry (lines 284-294)
ResponseObservations ==
  { << >>,
    << [kind |-> "inlineData", data |-> "img"] >>,
    << [kind |-> "inlineData", data |-> "img"],
       [kind |-> "text", text |-> <<"current_accessibility_tree:\n", "tree">>] >> }

AnswersCall(part, k) ==
  /\ part.kind = "functionResponse"
  /\ part.name = functionCalls[k].name
  /\ part.parts \in ResponseObservations

\* C32: while the calls of a turn are dispatched the responses pushed so far
\* answer the calls before the current one, in order; the step that ends
\* the capture after call idx pushes one response, with the name and the
\* result of that call and an observation; and a pending prompt of parts
\* holds one response per call of the turn, in the order of the calls.
C32_OneResponsePerCall ==
  /\ [](Dispatching =>
          /\ Len(functionResponses) = idx - 1
          /\ \A k \in 1..Len(functionResponses) : AnswersCall(functionResponses[k], k))
  /\ [](currentPrompt.type = "parts" =>
          /\ Len(currentPrompt.parts) = Len(functionCalls)
          /\ \A k \in 1..Len(functionCalls) : AnswersCall(currentPrompt.parts[k], k))
  /\ [][pc = "postCapturing" =>
          /\ Len(HeldResponses') = Len(functionResponses) + 1
          /\ SubSeq(HeldResponses', 1, Len(functionResponses)) = functionResponses
          /\ AnswersCall(HeldResponses'[idx], idx)
          /\ HeldResponses'[idx].response = funcResult]_vars

C32_Witness ==
  /\ currentPrompt.type = "parts"
  /\ Len(currentPrompt.parts) = 2
  /\ currentPrompt.parts[1].name = "navigate"
  /\ currentPrompt.parts[2].name = "bogus_tool"
  /\ currentPrompt.parts[1].parts = << >>
  /\ Len(currentPrompt.parts[2].parts) = 2

\* C34: when runTask has returned at the flagged call idx of a turn, every
\* earlier call of the turn that names a known tool has been handed to its
\* tool and a response has been built for each earlier call; the history
\* ends with the model turn of this iteration, the responses are not the
\* pending prompt, no model call follows that turn, and runTask takes no
\* further step.
C34_HaltDropsResponses ==
  /\ [](exit = "return178" =>
          /\ Len(functionResponses) = idx - 1
          /\ \A k \in 1..(idx - 1) :
               /\ functionCalls[k].name \in KnownTools => k \in Executed
               /\ functionResponses[k].name = functionCalls[k].name
          /\ Len(contents) > 0
          /\ contents[Len(contents)] = [role |-> "model", iter |-> i]
          /\ currentPrompt = NoPrompt
          /\ newContent = NoTurn
          /\ modelCalls = i + 1)
  /\ [][exit # "return178"]_vars

C34_Witness ==
  /\ exit = "return178"
  /\ idx = 2
  /\ functionCalls[1].name = "navigate"
  /\ Executed = {1}
  /\ Len(functionResponses) = 1
  /\ functionResponses[1].response.url = "https://tool.example"
  /\ contents[Len(contents)].role = "model"

\* an observation capture is in progress: between the update of lines 69-72
\* or 254-257 and the finally block that follows it
CaptureInProgress == pc \in {"capturing", "postCapturing"}

\* C38: the border is in capturing state only while an observation capture
\* is in progress; when the model is about to be called, a call is checked
\* or a tool runs, every capture attempt before it, failed or not, has put
\* the border back to capturing = false.
C38_CapturingOnlyDuringCapture == border.capturing => CaptureInProgress

\* the first capture failed before the screenshot, nothing was observed, and
\* the model is about to be called with the border reset
C38_Witness ==
  /\ pc = "callModel"
  /\ i = 0
  /\ Len(newContent.parts) = 1
  /\ border = [active |-> TRUE, capturing |-> FALSE]
  /\ lastOverlayCall = "update"

(***************************************************************************)
(* Properties of the plan approval                                         *)
(***************************************************************************)
\* resolve(targetDir, p) is the directory or continues it
InsidePlansDir(p, dir) ==
  LET r == Resolve(TargetDir, p)
  IN \E n \in 0..Len(r) : SubSeq(r, 1, n) = dir

\* C9: an execute returns the outside-the-plans-directory error exactly when
\* the resolved plan path is not inside the plans directory of that moment,
\* whatever was confirmed before; it then leaves the approval mode alone.
C9_SandboxAtExecute ==
  [][executes' # executes =>
       /\ (planResult' = OutsideResult) <=> ~InsidePlansDir(params, plansDir)
       /\ ~InsidePlansDir(params, plansDir) =>
            /\ approvalMode' = approvalMode
            /\ modeSets' = modeSets]_vars

C9_Witness ==
  /\ planResult = OutsideResult
  /\ executes = 1
  /\ confirmationOutcome = "ProceedOnce"
  /\ approvalPayload.approved
  /\ approvalMode = "plan"
  /\ modeSets = 0

\* C10: the approval mode is set only by an execute whose plan path is in
\* the plans directory, whose recorded outcome is not Cancel and whose
\* recorded payload is approved.
C10_ModeChangeOnlyApproved ==
  [][(approvalMode' # approvalMode \/ modeSets' # modeSets) =>
       /\ executes' = executes + 1
       /\ modeSets' = modeSets + 1
       /\ InsidePlansDir(params, plansDir)
       /\ confirmationOutcome # "Cancel"
       /\ approvalPayload.approved
       /\ approvalMode' = NewMode(approvalPayload)]_vars

C10_Witness ==
  /\ modeSets = 1
  /\ approvalMode = "autoEdit"
  /\ confirmationOutcome = "ProceedAlways"

\* the requests handed out and not resolved
Outstanding == { r \in 1..Len(requests) : ~requests[r].resolved }

\* a result that reports an error to the caller
IsErrorResult(r) == r.llmContent # <<>> /\ Head(r.llmContent) = OutsideText

\* C11: an execute made while a request is outstanding and onConfirm was
\* never invoked returns an error result and leaves the approval mode alone.
C11_UnresolvedFailsClosed ==
  [][(executes' # executes /\ confirmationOutcome = None /\ Outstanding # {}) =>
       /\ IsErrorResult(planResult')
       /\ approvalMode' = approvalMode
       /\ modeSets' = modeSets]_vars

\* C12 as stated: whenever the recorded outcome is Cancel, an execute
\* returns the cancelled result and leaves the approval mode alone.
C12_CancelAlways ==
  [][(executes' # executes /\ confirmationOutcome = "Cancel") =>
       /\ planResult' = CancelledResult
       /\ approvalMode' = approvalMode
       /\ modeSets' = modeSets]_vars

\* C12: with the plan path inside the plans directory at that moment and
\* the recorded outcome Cancel, an execute returns the fixed cancelled
\* result with returnDisplay 'Cancelled', whatever payload is recorded, and
\* leaves the approval mode alone.
C12_CancelInsideSandbox ==
  [][(executes' # executes /\ confirmationOutcome = "Cancel"
        /\ InsidePlansDir(params, plansDir)) =>
       /\ planResult'.llmContent =
            <<"User cancelled the plan approval dialog. The plan was not approved and you are still in Plan Mode.">>
       /\ planResult'.returnDisplay = <<"Cancelled">>
       /\ approvalMode' = approvalMode
       /\ modeSets' = modeSets]_vars

\* a cancelled execute although an approving payload was recorded
C12_Witness ==
  /\ planResult = CancelledResult
  /\ confirmationOutcome = "Cancel"
  /\ approvalPayload.approved
  /\ approvalPayload.approvalMode = "autoEdit"
  /\ executes = 1
  /\ approvalMode = "plan"

\* the recorded confirmation approves the plan
RecordedApproval ==
  /\ confirmationOutcome \in Outcomes \ {"Cancel"}
  /\ approvalPayload.type = "plan_approval"
  /\ approvalPayload.approved

\* the mode an approving payload asks for
RequestedMode ==
  IF approvalPayload.approvalMode = None THEN "default" ELSE approvalPayload.approvalMode

\* C13 as stated: whenever the recorded confirmation approves the plan, an
\* execute switches the approval mode and returns the approval text.
C13_ApprovedAlways ==
  [][(executes' # executes /\ RecordedApproval) =>
       /\ approvalMode' = RequestedMode
       /\ Head(planResult'.llmContent) = "Plan approved. Switching to "]_vars

\* C13: with the plan path inside the plans directory at that moment and a
\* recorded non-Cancel outcome with an approving plan_approval payload, an
\* execute sets the approval mode to payload.approvalMode, DEFAULT when
\* unset, and returns llmContent that begins 'Plan approved. Switching to
\* <description of that mode>' and holds the resolved plan path.
C13_ApprovedInsideSandbox ==
  [][(executes' # executes /\ RecordedApproval /\ InsidePlansDir(params, plansDir)) =>
       /\ approvalMode' = RequestedMode
       /\ modeSets' = modeSets + 1
       /\ SubSeq(planResult'.llmContent, 1, 2) =
            << "Plan approved. Switching to ",
               IF RequestedMode = "autoEdit"
                 THEN "Auto-Edit mode (edits will be applied automatically)"
                 ELSE "Default mode (edits will require confirmation)" >>
       /\ Len(planResult'.llmContent) = 5
       /\ planResult'.llmContent[4] = Resolve(TargetDir, params)
       /\ planResult'.returnDisplay = << "Plan approved: ", Resolve(TargetDir, params) >>]_vars

\* an approval that asked for Auto-Edit, on a path that needed normalising
C13_Witness ==
  /\ executes = 1
  /\ approvalMode = "autoEdit"
  /\ RecordedApproval
  /\ params = RelPath(<<"plans", "sub", "..", "p.md">>)
  /\ Len(planResult.llmContent) = 5
  /\ planResult.llmContent[4] = <<"mock", "dir", "plans", "p.md">>

\* the recorded confirmation rejects the plan
RecordedRejection ==
  /\ confirmationOutcome \in Outcomes \ {"Cancel"}
  /\ approvalPayload.type = "plan_approval"
  /\ ~approvalPayload.approved

\* C14 as stated: whenever the recorded confirmation rejects the plan, an
\* execute returns the rejection text.
C14_RejectedAlways ==
  [][(executes' # executes /\ RecordedRejection) =>
       Head(planResult'.llmContent) = "Plan rejected. Feedback: "]_vars

\* C14: with the plan path inside the plans directory at that moment and a
\* recorded non-Cancel outcome with a rejecting plan_approval payload, an
\* execute returns 'Plan rejected. Feedback: <f>', f the payload's feedback
\* or 'None' when there is none, tells the agent to revise the plan, and
\* leaves the approval mode alone.
C14_RejectedInsideSandbox ==
  [][(executes' # executes /\ RecordedRejection /\ InsidePlansDir(params, plansDir)) =>
       /\ SubSeq(planResult'.llmContent, 1, 2) =
            << "Plan rejected. Feedback: ",
               IF approvalPayload.feedback = <<>> THEN <<"None">>
               ELSE approvalPayload.feedback >>
       /\ Len(planResult'.llmContent) = 5
       /\ planResult'.llmContent[5] = "\nRevise the plan based on the feedback."
       /\ approvalMode' = approvalMode
       /\ modeSets' = modeSets]_vars

\* a rejection without feedback
C14_Witness ==
  /\ executes = 1
  /\ RecordedRejection
  /\ approvalPayload.feedback = <<>>
  /\ planResult.returnDisplay = << "Feedback: ", <<"None">> >>
  /\ approvalMode = "plan"

\* C15: the recorded outcome and payload change only when a request not
\* resolved before is resolved; resolving a request again changes nothing.
C15_SecondResolveNoOp ==
  [][(confirmationOutcome' # confirmationOutcome \/ approvalPayload' # approvalPayload) =>
       \E r \in Outstanding : requests'[r].resolved]_vars

\* C16: shouldConfirmExecute returns false exactly when the plan path
\* resolves outside the plans directory of that moment, and then opens no
\* request; otherwise it returns a plan_approval request, not yet resolved,
\* whose planPath is the resolved absolute plan path. It records nothing.
C16_ConfirmableIffInside ==
  [][(confirmResult' # confirmResult \/ Len(requests') > Len(requests)) =>
       /\ confirmResult' \in {"false", "plan_approval"}
       /\ (confirmResult' = "false") <=> ~InsidePlansDir(params, plansDir)
       /\ confirmResult' = "false" => requests' = requests
       /\ confirmResult' = "plan_approval" =>
            /\ Len(requests') = Len(requests) + 1
            /\ SubSeq(requests', 1, Len(requests)) = requests
            /\ requests'[Len(requests')].planPath = Resolve(TargetDir, params)
            /\ ~requests'[Len(requests')].resolved
       /\ UNCHANGED << confirmationOutcome, approvalPayload, approvalMode, modeSets,
                       planResult >>]_vars

\* a refusal after the plans directory moved, and a request before it
C16_Witness ==
  /\ confirmResult = "false"
  /\ Len(requests) = 1
  /\ requests[1].planPath = <<"mock", "dir", "plans", "p.md">>
  /\ params = RelPath(<<"plans", "sub", "..", "p.md">>)
  /\ plansDir = <<"completely", "different", "path">>

\* the empty and the whitespace-only plan_path
BlankPaths == { RelPath(<<>>), RelPath(<<" ">>) }

\* C17: validation answers 'plan_path is required.' for an empty or
\* whitespace-only path, an 'Access denied' error naming the plans directory
\* for a path resolving outside it, and null otherwise; build creates the
\* invocation only when validation answers null, and nothing is confirmed
\* or executed without an invocation.
C17_BuildValidates ==
  /\ [](/\ \A p \in PlanPaths :
             LET e == ValidateToolParamValues(p)
             IN IF p \in BlankPaths THEN e = <<"plan_path is required.">>
                ELSE IF ~InsidePlansDir(p, plansDir)
                       THEN /\ Len(e) = 3
                            /\ e[1] = "Access denied: plan path must be within the designated plans directory ("
                            /\ e[2] = plansDir
                       ELSE e = <<>>
        /\ ~built =>
             /\ requests = <<>>
             /\ confirmResult = None
             /\ executes = 0
             /\ planResult = NoResult
             /\ confirmationOutcome = None
             /\ approvalMode = "plan")
  /\ [][/\ built' # built =>
             /\ built'
             /\ params' \notin BlankPaths
             /\ InsidePlansDir(params', plansDir)
             /\ buildError' = <<>>
        /\ (buildError' # buildError /\ buildError' # <<>>) =>
             /\ built' = built
             /\ params' = params
             /\ \E p \in PlanPaths :
                  /\ p \in BlankPaths \/ ~InsidePlansDir(p, plansDir)
                  /\ buildError' = ValidateToolParamValues(p)]_vars

\* a build refused for a path outside the plans directory of that moment
C17_Witness ==
  /\ ~built
  /\ Len(buildError) = 3
  /\ buildError[2] = <<"completely", "different", "path">>
  /\ plansDir = <<"completely", "different", "path">>

\* C18: an invocation never has two requests outstanding.
C18_OneOutstanding == Cardinality(Outstanding) <= 1

\* C19: an execute made after the signal fired, with a request handed out
\* and never resolved by anyone, takes the cancelled branch.
C19_AbortResolvesCancel ==
  [][(executes' # executes /\ aborted /\ requests # <<>>
        /\ Outstanding = 1..Len(requests) /\ confirmationOutcome = None
        /\ InsidePlansDir(params, plansDir)) =>
       planResult' = CancelledResult]_vars

\* the requests resolved so far
Resolved == { r \in 1..Len(requests) : requests[r].resolved }

\* every resolved request was resolved last without a plan_approval payload,
\* and the outcome recorded last is not Cancel
ResolvedWithoutApprovalPayload ==
  /\ Resolved # {}
  /\ \A r \in Resolved : requests[r].with # "plan_approval"
  /\ confirmationOutcome \in Outcomes \ {"Cancel"}

\* C37: a resolution whose payload is absent or not of type plan_approval
\* leaves the recorded payload as it is; and when the requests were resolved
\* last without a plan_approval payload and with an outcome other than
\* Cancel, an execute with the plan path inside the plans directory returns
\* the rejection with feedback 'None' and leaves the approval mode alone.
C37_NoPayloadRejects ==
  [][/\ \A r \in 1..Len(requests) :
          (requests'[r] # requests[r] /\ requests'[r].with # "plan_approval") =>
            approvalPayload' = approvalPayload
     /\ (executes' # executes /\ ResolvedWithoutApprovalPayload
           /\ InsidePlansDir(params, plansDir)) =>
          /\ SubSeq(planResult'.llmContent, 1, 2) = << "Plan rejected. Feedback: ", <<"None">> >>
          /\ approvalMode' = approvalMode
          /\ modeSets' = modeSets]_vars

(***************************************************************************)
(* Properties of the BrowserManager                                        *)
(***************************************************************************)
\* a getPage() call settles in the step that starts it
SettlesAtOnce == mpc' = mpc /\ (returned' # returned \/ thrown' # thrown)

\* the manager holds a browser that is connected
HoldsConnectedBrowser == IF browser = Null THEN FALSE ELSE connected[browser]

\* C21: there is no browser before a getPage() call launches one; a call
\* that finds no browser, or a browser that is not connected, launches a
\* new browser, makes a new context in it and a new page in that, stores
\* all three and returns the new page; it throws only when the import or
\* the launch fails, the new browser closes meanwhile, or another call's
\* browser replaced and cleared the reference.
C21_LazyAndRecreated ==
  /\ connected = <<>> /\ browser = Null /\ context = Null /\ page = Null
  /\ [][/\ Len(connected') > Len(connected) =>
             \E c \in Callers : mpc[c] = "launch" /\ mpc'[c] = "newContext36"
        /\ \A c \in Callers :
             /\ (mpc[c] = "idle" /\ ~HoldsConnectedBrowser) =>
                  /\ mpc'[c] \in {"idle", "launch"}
                  /\ ~SettlesAtOnce
             /\ (mpc[c] = "launch" /\ mpc'[c] = "newContext36") =>
                  /\ Len(connected') = Len(connected) + 1
                  /\ browser' = Len(connected')
                  /\ connected'[browser']
                  /\ target'[c] = browser'
             /\ (mpc[c] = "newContext36" /\ mpc'[c] = "newPage40") =>
                  /\ Len(ctxBrowser') = Len(ctxBrowser) + 1
                  /\ context' = Len(ctxBrowser')
                  /\ ctxBrowser'[context'] = target[c]
                  /\ target'[c] = context'
             /\ (mpc[c] = "newPage40" /\ mpc'[c] = "idle" /\ thrown' = None) =>
                  /\ Len(pageCtx') = Len(pageCtx) + 1
                  /\ page' = Len(pageCtx')
                  /\ returned' = page'
                  /\ pageCtx'[page'] = target[c]
                  /\ ~pageClosed'[page']
                  /\ connected[ctxBrowser[target[c]]]
             /\ (mpc[c] = "newPage40" /\ mpc'[c] = "idle"
                   /\ connected[ctxBrowser[target[c]]]
                   /\ browser = ctxBrowser[target[c]]) =>
                  thrown' = None
             /\ (mpc[c] \in {"launch", "newContext36", "newPage40"} /\ mpc'[c] = "idle") =>
                  thrown' \in { None, "Playwright is not installed", "launch failed",
                                "browser has been closed", "TypeError" }]_vars

\* the first browser disconnected after its call, and a later call returned
\* a page of a second browser
C21_Witness ==
  /\ Len(connected) = 2
  /\ ~connected[1]
  /\ onDisconnected[1]
  /\ browser = 2
  /\ returned # Null
  /\ thrown = None
  /\ returned = page
  /\ BrowserOf(returned) = 2
  /\ \A c \in Callers : mpc[c] = "idle"

\* this.page is null or closed
PageGone == IF page = Null THEN TRUE ELSE pageClosed[page]

\* only the page is gone: the browser is connected and the context is held
OnlyPageGone == HoldsConnectedBrowser /\ context # Null /\ PageGone

\* a getPage() call returns in this step
Returns ==
  /\ thrown' = None
  /\ SettlesAtOnce \/ \E c \in Callers : mpc[c] # "idle" /\ mpc'[c] = "idle"

\* C33: a getPage() call that finds the browser connected, the context held
\* and the page null or closed launches nothing and awaits newPage on that
\* context; when that newPage settles and the call returns, it returns a new
\* page of that context and no browser has been launched; and every call
\* that returns, returns a page that is not null and not closed.
C33_NewPageInContext ==
  [][/\ \A c \in Callers :
          /\ (mpc[c] = "idle" /\ OnlyPageGone) =>
               /\ ~SettlesAtOnce
               /\ mpc'[c] # "idle" =>
                    /\ mpc'[c] = "newPage66"
                    /\ target'[c] = context
                    /\ connected' = connected
          /\ (mpc[c] = "newPage66" /\ mpc'[c] = "idle" /\ thrown' = None) =>
               /\ Len(pageCtx') = Len(pageCtx) + 1
               /\ returned' = Len(pageCtx')
               /\ page' = returned'
               /\ pageCtx'[returned'] = target[c]
               /\ connected' = connected
     /\ Returns => IF returned' = Null THEN FALSE ELSE ~pageClosed'[returned']]_vars

\* the first page was closed and a later call returned a second page of the
\* same context, in the only browser ever launched
C33_Witness ==
  /\ Len(connected) = 1
  /\ Len(ctxBrowser) = 1
  /\ Len(pageCtx) = 2
  /\ pageClosed[1]
  /\ ~onClose[2]
  /\ returned = 2
  /\ page = 2
  /\ thrown = None

\* the browsers that are launched and open
OpenBrowsers == { b \in DOMAIN connected : connected[b] }

\* C35 as stated: whatever the interleaving of the calls, at most one
\* launched browser is open, and a page that getPage() returns belongs to
\* the browser the manager references.
C35_OneLiveBrowser ==
  /\ [](Cardinality(OpenBrowsers) <= 1)
  /\ [][Returns =>
          IF returned' = Null \/ browser' = Null THEN FALSE
          ELSE ctxBrowser'[pageCtx'[returned']] = browser']_vars

\* C35: as long as the calls on the manager have been made one after the
\* other, at most one launched browser is open, an open browser is the one
\* the manager references, and a page that getPage() returns belongs to
\* that browser.
C35_OneLiveBrowserSerial ==
  /\ [](~overlapped =>
          /\ Cardinality(OpenBrowsers) <= 1
          /\ \A b \in OpenBrowsers : browser = b)
  /\ [][(Returns /\ ~overlapped') =>
          IF returned' = Null \/ browser' = Null THEN FALSE
          ELSE ctxBrowser'[pageCtx'[returned']] = browser']_vars

\* a second browser was launched after the first had disconnected, and the
\* call returned a page of the second
C35_Witness ==
  /\ Len(connected) = 2
  /\ OpenBrowsers = {2}
  /\ browser = 2
  /\ returned # Null
  /\ thrown = None
  /\ BrowserOf(returned) = 2
  /\ Quiet
  /\ ~overlapped

\* browser b disconnects in this step
Disconnects(b) == connected[b] /\ ~connected'[b]

\* page p closes in this step while its browser stays connected
ClosesAlone(p) ==
  /\ ~pageClosed[p]
  /\ pageClosed'[p]
  /\ connected'[BrowserOf(p)]

\* C36: when a browser other than the one the manager references
\* disconnects, the references to the current browser and context stay, and
\* so does the reference to the current page unless that page is one of the
\* disconnecting browser; when a page other than the current page closes
\* on its own, the reference to the current page stays.
C36_StaleEventsIgnored ==
  [][/\ \A b \in DOMAIN connected :
          (Disconnects(b) /\ browser # Null /\ browser # b) =>
            /\ browser' = browser
            /\ context' = context
            /\ IF page = Null THEN TRUE
               ELSE BrowserOf(page) # b => page' = page
     /\ \A p \in DOMAIN pageClosed :
          (ClosesAlone(p) /\ page # Null /\ page # p) => page' = page]_vars

(***************************************************************************)
(* Properties of the HookRunner                                            *)
(***************************************************************************)
Gated == hpc \in { "proceeded", "refused" }

ExitedWith(o, code) == ~o.timedOut /\ o.exit = code

ReturnedDenyOrBlock(k) == hookResults[k].decision \in { "deny", "block" }

ReturnedAllowApproveAsk(k) ==
  hookResults[k].decision \in { "allow", "approve", "ask" }

\* C26: once the hooks of an event have run and the event is gated, the
\* event is refused if and only if the result of at least one of its hooks,
\* at whatever place in the registration order, is deny or block; the
\* aggregate decision is then deny or block whatever the other hooks
\* returned.
C26_DenyBlockPrecedence ==
  Gated =>
    /\ hpc = "refused" <=> \E k \in 1..Len(hookResults) : ReturnedDenyOrBlock(k)
    /\ hpc = "refused" <=> aggregate.decision \in { "deny", "block" }

C26_Witness ==
  /\ hpc = "refused"
  /\ Len(hookResults) = 3
  /\ ReturnedAllowApproveAsk(1)
  /\ ReturnedDenyOrBlock(2)
  /\ ReturnedAllowApproveAsk(3)

FailedRun(o) ==
  \/ o.timedOut
  \/ o.exit \notin { 0, 2 }
  \/ o.exit = 0 /\ ~o.parses

LiveRuns == SelectSeq(hookRuns, LAMBDA o : ~FailedRun(o))

\* C28: a hook that timed out, that exited with a code other than 0 and 2,
\* or that exited with code 0 and output that is not JSON yields no
\* decision, whatever its output held; the event is refused, and the loop
\* is ended, exactly when it would be with only the other hooks registered.
C28_FailOpen ==
  /\ \A k \in 1..Len(hookRuns) :
       FailedRun(hookRuns[k]) => hookResults[k] = [ decision |-> None, continue |-> TRUE ]
  /\ Gated =>
       /\ hpc = "refused" <=>
            \E k \in 1..Len(LiveRuns) :
              \/ LiveRuns[k].exit = 2
              \/ LiveRuns[k].exit = 0 /\ LiveRuns[k].decision \in { "deny", "block" }
       /\ loopRunning <=>
            \A k \in 1..Len(LiveRuns) :
              LiveRuns[k].exit = 0 => LiveRuns[k].continue

C28_Witness ==
  /\ hpc = "proceeded"
  /\ loopRunning
  /\ Len(hookRuns) = 3
  /\ hookRuns[1].timedOut /\ hookRuns[1].decision = "deny"
  /\ ExitedWith(hookRuns[2], 1) /\ hookRuns[2].decision = "deny"
  /\ ExitedWith(hookRuns[3], 0) /\ ~hookRuns[3].parses

(***************************************************************************)
(* Properties of the ProjectRegistry                                       *)
(***************************************************************************)
Registered(np) == regFile.state = "ok" /\ np \in DOMAIN regFile.projects

\* C30: when the registry file holds an ID for a normalized path, a
\* getShortId call for any path that normalizes to it returns that ID
\* without throwing and leaves the registry file as it is, and the path
\* keeps that ID in the file through every call for any path.
C30_StableShortId ==
  [][\A np \in DOMAIN regFile.projects :
       Registered(np) =>
         /\ Registered(np)' /\ regFile'.projects[np] = regFile.projects[np]
         /\ lastCall' # lastCall /\ normalizePath(lastCall'.path) = np =>
              /\ lastCall'.id = regFile.projects[np]
              /\ ~lastCall'.threw
              /\ regFile' = regFile]_vars

\* a call for a path registered before the path whose ID carries the suffix
C30_Witness ==
  /\ lastCall.path = << <<"o">>, <<"a", "b">>, DotDot, <<"a", "b">> >>
  /\ lastCall.id = << "a", "b" >>
  /\ Registered(<< <<"o">>, <<"a", "b">> >>)
  /\ Registered(<< <<"t">>, <<"a", "b">> >>)
  /\ regFile.projects[<< <<"o">>, <<"a", "b">> >>] = << "a", "b" >>
  /\ regFile.projects[<< <<"t">>, <<"a", "b">> >>] = << "a", "b", "-", "1" >>

\* the IDs the registry file holds
FileIds == { regFile.projects[q] : q \in DOMAIN regFile.projects }

\* the slug of a normalized path
SlugOf(np) ==
  slugify(IF Basename(np) = << >> THEN ProjectSlug ELSE Basename(np))

Suffixed(slug, n) == slug \o << "-" >> \o Digits(n)

\* a call returned for a path the registry file did not hold
ReturnedNew(np) ==
  /\ lastCall' # lastCall
  /\ ~lastCall'.threw
  /\ normalizePath(lastCall'.path) = np
  /\ ~Registered(np)

\* C31 as stated: the IDs of the file are distinct, and a path none of whose
\* predecessors in the file has its slug is given the slug itself.
C31_FirstGetsSlug ==
  [][\A p \in ProjectPaths :
       LET np == normalizePath(p)
       IN ReturnedNew(np)
            /\ (\A q \in DOMAIN regFile.projects :
                  regFile.state = "ok" => SlugOf(q) # SlugOf(np))
          => lastCall'.id = SlugOf(np)]_vars

\* C31: the paths of the registry file have distinct IDs; a path the file
\* does not hold is given its slug when no ID of the file is that string,
\* and otherwise slug-N for the smallest N >= 1 such that slug-N is not an
\* ID of the file.
C31_UniqueSmallestSuffix ==
  /\ [](\A q, r \in DOMAIN regFile.projects :
          regFile.projects[q] = regFile.projects[r] => q = r)
  /\ [][\A p \in ProjectPaths :
          LET np == normalizePath(p)
              ids == IF regFile.state = "ok" THEN FileIds ELSE {}
              slug == SlugOf(np)
          IN ReturnedNew(np) =>
               IF slug \notin ids
                 THEN lastCall'.id = slug
                 ELSE \E n \in 1..(Cardinality(ids) + 1) :
                        /\ lastCall'.id = Suffixed(slug, n)
                        /\ Suffixed(slug, n) \notin ids
                        /\ \A m \in 1..(n - 1) : Suffixed(slug, m) \in ids]_vars

C31_Witness ==
  /\ Registered(<< <<"o">>, <<"a", "b">> >>)
  /\ Registered(<< <<"t">>, <<"a", "b">> >>)
  /\ Registered(<< <<"t">>, <<"a", "b", "-", "1">> >>)
  /\ regFile.projects[<< <<"t">>, <<"a", "b", "-", "1">> >>] = << "a", "b", "-", "1" >>
  /\ regFile.projects[<< <<"t">>, <<"a", "b">> >>] = << "a", "b", "-", "2" >>
  /\ lastCall.path = << <<"t">>, <<"a", "b">> >>

\* the processes whose getShortId call has returned an ID
Handed == { s \in Sessions : sessions[s].pc = "returned" }

\* C39: whatever save runs into and however the calls of two processes on
\* the same file interleave, two calls are handed the same ID exactly when
\* their paths normalize to the same path.
C39_UniqueUnderFailureAndRace ==
  \A s, t \in Handed :
    (sessions[s].id = sessions[t].id) <=>
      (normalizePath(sessions[s].path) = normalizePath(sessions[t].path))

====
